---------------------------- MODULE Spec2Model ----------------------------
(***************************************************************************)
(* A model of the TI E2E forum crawler (backend/scripts/TI-E2E-scraper.py):*)
(* the transport (fetch_html behind an asyncio.Semaphore), the listing and *)
(* detail parsers, the dedup store (existing_urls) and the chunked         *)
(* orchestrator scrape_ti_e2e_forum_async, with its command-line entry.    *)
(***************************************************************************)
EXTENDS Integers, Sequences, FiniteSets, TLC

(***************************************************************************)
(* Bounds of the model.                                                    *)
(***************************************************************************)
\* Runs made one after the other in the two-run specification SpecRerun.
MaxRuns == 2
\* Largest total page count and chunk size of the partition specification.
MaxTotalPages == 250
MaxChunkSize == 100

(***************************************************************************)
(* Program constants.                                                      *)
(***************************************************************************)
\* gather_listing_pages(..., concurrency=5), scraper.py:281
ListingConcurrency == 5
\* gather_detail_pages(answered, concurrency=10), scraper.py:289
DetailConcurrency == 10
\* chunk_size=100 of the command-line entry, scraper.py:330
MainChunkSize == 100

USER_AGENT == "Mozilla/5.0 (Macintosh; Intel Mac OS X 12_6) AppleWebKit/537.36 (KHTML, like Gecko) Chrome/112.0.0.0 Safari/537.36"

NoQuestion == "No Question Found"
NoAnswer == "No Answer Found"

(***************************************************************************)
(* Values.  Python's None, and page bodies.  A listing body is a sequence  *)
(* of rows; a row is the sequence of sibling nodes under one parent: item  *)
(* containers (div.name.cell, with or without a link) and status markers   *)
(* (div.icon.cell.answer-status).  A detail body says which regions exist. *)
(***************************************************************************)
None == [kind |-> "None"]
\* link_el.get("href", "") of a node without one.
NoUrl == [path |-> "", id |-> 0]
EmptyBody == [kind |-> "html", doc |-> "empty"]
NoEl == "<no element>"

NameCell(hasLink, title, url) ==
    [tag |-> "name", link |-> hasLink, title |-> title, url |-> url, mark |-> ""]
StatusCell(mark) ==
    [tag |-> "status", link |-> FALSE, title |-> "", url |-> NoUrl, mark |-> mark]
ListingBody(rows) == [kind |-> "html", doc |-> "listing", rows |-> rows]
DetailBody(q, hasAnswerDiv, content) ==
    [kind |-> "html", doc |-> "detail", question |-> q,
     answer_div |-> hasAnswerDiv, content |-> content]

\* Python truthiness of the value fetch_html returned: None and "" are falsy.
Falsy(html) == html = None \/ html = EmptyBody

(***************************************************************************)
(* parse_listing_page                                                      *)
(***************************************************************************)
\* div.find_previous_sibling("div", class_="icon cell answer-status"): the
\* nearest status marker before position k of the row, 0 when there is none.
find_previous_sibling(row, k) ==
    LET S == {j \in 1..(k - 1) : row[j].tag = "status"}
    IN  IF S = {} THEN 0 ELSE CHOOSE j \in S : \A i \in S : i <= j

\* div.find_next_sibling(...): the nearest status marker after position k.
find_next_sibling(row, k) ==
    LET S == {j \in (k + 1)..Len(row) : row[j].tag = "status"}
    IN  IF S = {} THEN 0 ELSE CHOOSE j \in S : \A i \in S : j <= i

\* The marker read without the branch of lines 118-120: a suggested answer
\* does not count.
StatusOfMark_SuggestedIgnored(mark) ==
    CASE mark = "verified" -> "Answered"
      [] mark = "unanswered" -> "Not Answered"
      [] OTHER -> "Unknown"

\* The status read off a marker (lines 114-125).
StatusOfMark(mark) ==
    CASE mark = "verified" -> "Answered"
      [] mark = "suggested" -> "Answered"
      [] mark = "unanswered" -> "Not Answered"
      [] OTHER -> "Unknown"

\* Lines 112-113 with the two lookups in the other order: the following
\* marker is taken when there is one.
ItemStatus_NextFirst(row, k) ==
    LET n == find_next_sibling(row, k)
        s == IF n # 0 THEN n ELSE find_previous_sibling(row, k)
    IN  IF s = 0 THEN "Unknown" ELSE StatusOfMark(row[s].mark)

\* The status of the item container at position k of its row (lines 109-125).
ItemStatus(row, k) ==
    LET p == find_previous_sibling(row, k)
        s == IF p # 0 THEN p ELSE find_next_sibling(row, k)
    IN  IF s = 0 THEN "Unknown" ELSE StatusOfMark(row[s].mark)

\* The loop of lines 102-127 without the test of lines 104-105: a container
\* without link gives an item with an empty title and url.
ParseRowFrom_KeepsNoLink(row, k) ==
    LET idx == SelectSeq([j \in 1..Len(row) |-> j],
                         LAMBDA j : j >= k /\ row[j].tag = "name")
    IN  [i \in 1..Len(idx) |->
            [title |-> row[idx[i]].title, url |-> row[idx[i]].url,
             status |-> ItemStatus(row, idx[i])]]

\* Lines 102-127 over the containers of one parent, from position k on.
RECURSIVE ParseRowFrom(_, _)
ParseRowFrom(row, k) ==
    IF k > Len(row) THEN <<>>
    ELSE IF row[k].tag = "name" /\ row[k].link
         THEN <<[title |-> row[k].title, url |-> row[k].url,
                 status |-> ItemStatus(row, k)]>> \o ParseRowFrom(row, k + 1)
         ELSE ParseRowFrom(row, k + 1)

RECURSIVE ParseRows(_)
ParseRows(rows) ==
    IF rows = <<>> THEN <<>>
    ELSE ParseRowFrom(Head(rows), 1) \o ParseRows(Tail(rows))

parse_listing_page(html) ==
    IF Falsy(html) THEN <<>> ELSE ParseRows(html.rows)

(***************************************************************************)
(* parse_detail_page                                                       *)
(***************************************************************************)
\* parse_detail_page without the guard of lines 137-138: a missing body gives
\* the question placeholder and an empty answer.
parse_detail_page_NoGuard(html) ==
    IF Falsy(html)
    THEN [question |-> NoQuestion, answer |-> ""]
    ELSE [question |-> IF html.question # NoEl THEN html.question ELSE NoQuestion,
          answer |-> IF html.answer_div /\ html.content # NoEl
                     THEN html.content ELSE NoAnswer]

\* parse_detail_page giving up on the whole page when either region is
\* missing.
parse_detail_page_AllOrNothing(html) ==
    IF Falsy(html) \/ html.question = NoEl \/ ~html.answer_div \/ html.content = NoEl
    THEN [question |-> NoQuestion, answer |-> NoAnswer]
    ELSE [question |-> html.question, answer |-> html.content]

\* Lines 137-158.
parse_detail_page(html) ==
    IF Falsy(html)
    THEN [question |-> NoQuestion, answer |-> NoAnswer]
    ELSE [question |-> IF html.question # NoEl THEN html.question ELSE NoQuestion,
          answer |-> IF html.answer_div /\ html.content # NoEl
                     THEN html.content ELSE NoAnswer]

(***************************************************************************)
(* The forum (the environment).  A site is its listing pages and, for each *)
(* thread url, its detail page.  Thread k has url Url(k), title Titles[k], *)
(* question QTexts[k] and answer ATexts[k].                                *)
(***************************************************************************)
Titles == <<"T1", "T2", "T3", "T4", "T5", "T6", "T7", "T8", "T9", "T10", "T11", "T12">>
QTexts == <<"Q1", "Q2", "Q3", "Q4", "Q5", "Q6", "Q7", "Q8", "Q9", "Q10", "Q11", "Q12">>
ATexts == <<"A1", "A2", "A3", "A4", "A5", "A6", "A7", "A8", "A9", "A10", "A11", "A12">>

Url(k) == [path |-> "thread", id |-> k]

\* base_url_1 and base_url_n.format(page) of gather_listing_pages.
base_url_1 == [path |-> "processors-forum", id |-> 0]
base_url_n(page) == [path |-> "processors-forum", id |-> page]
ListingUrl(page) == IF page = 1 THEN base_url_1 ELSE base_url_n(page)

\* Rows of a listing page, as the forum renders them.
RowVerifiedBefore(k) == <<StatusCell("verified"), NameCell(TRUE, Titles[k], Url(k))>>
RowSuggestedAfter(k) == <<NameCell(TRUE, Titles[k], Url(k)), StatusCell("suggested")>>
RowUnansweredAfter(k) == <<NameCell(TRUE, Titles[k], Url(k)), StatusCell("unanswered")>>
RowNoMarker(k) == <<NameCell(TRUE, Titles[k], Url(k))>>
RowNoLink == <<StatusCell("verified"), NameCell(FALSE, "", NoUrl)>>

\* Detail pages: complete, without an answer element, and with an answer
\* element that has no content region and no question region.
FullDetail(k) == DetailBody(QTexts[k], TRUE, ATexts[k])
QuestionOnly(k) == DetailBody(QTexts[k], FALSE, NoEl)
HollowDetail == DetailBody(NoEl, TRUE, NoEl)

\* Three pages with pairwise different thread urls.
SiteA ==
    [pages |-> << ListingBody(<<RowVerifiedBefore(1), RowUnansweredAfter(2)>>),
                  ListingBody(<<RowSuggestedAfter(3)>>),
                  ListingBody(<<RowNoMarker(4), RowNoLink>>) >>,
     threads |-> (1 :> FullDetail(1)) @@ (2 :> FullDetail(2))
                 @@ (3 :> QuestionOnly(3)) @@ (4 :> FullDetail(4))]

\* Two pages that overlap: thread 1 is listed on both (a thread that moved
\* to the next page while the crawl ran, or a pinned thread).
SiteB ==
    [pages |-> << ListingBody(<<RowVerifiedBefore(1)>>),
                  ListingBody(<<RowVerifiedBefore(1), RowSuggestedAfter(2)>>) >>,
     threads |-> (1 :> FullDetail(1)) @@ (2 :> HollowDetail)]

\* One page with two answered threads.
SiteC ==
    [pages |-> << ListingBody(<<RowVerifiedBefore(1), RowVerifiedBefore(2)>>) >>,
     threads |-> (1 :> FullDetail(1)) @@ (2 :> EmptyBody)]

Sites == {SiteA, SiteB, SiteC}

\* The body the forum serves for a url with status 200.  A listing page
\* past the last one has no item.
Serve(s, url) ==
    IF url.path = "processors-forum"
    THEN LET page == IF url.id = 0 THEN 1 ELSE url.id
         IN  IF page \in 1..Len(s.pages) THEN s.pages[page] ELSE ListingBody(<<>>)
    ELSE IF url.id \in DOMAIN s.threads THEN s.threads[url.id] ELSE EmptyBody

\* What a request can end in: a 200 with a readable body, a 403, another
\* 4xx/5xx, a connection-level failure, a timeout, and a 200 whose bytes do
\* not decode.
Responses == {"200", "403", "4xx5xx", "neterr", "timeout", "undecodable"}
Failures == {"403", "4xx5xx", "neterr", "timeout"}

(***************************************************************************)
(* fetch_html                                                              *)
(***************************************************************************)
\* The request sent (line 43): its url and headers.
Request(url) == [url |-> url, headers |-> [UserAgent |-> USER_AGENT]]

\* The User-Agent a headless Chromium page sends when none is set for it.
BrowserAgent == "HeadlessChrome"
\* The request of page.goto(url) on the page of browser.new_page() (lines
\* 20-22): nothing sets a header, the browser sends its own.
PageRequest(url) == [url |-> url, headers |-> [UserAgent |-> BrowserAgent]]

\* fetch_html without `except aiohttp.ClientResponseError`: the error that
\* raise_for_status raises for a 4xx/5xx leaves the coroutine.
fetch_html_result_HttpErrorRaises(rsp, body) ==
    CASE rsp = "200" -> [raised |-> FALSE, value |-> body, log |-> "none"]
      [] rsp \in {"403", "neterr", "timeout"} ->
            [raised |-> FALSE, value |-> None, log |-> "skipped"]
      [] OTHER -> [raised |-> TRUE, value |-> None, log |-> "none"]

\* fetch_html without `except asyncio.TimeoutError`.
fetch_html_result_TimeoutRaises(rsp, body) ==
    CASE rsp = "200" -> [raised |-> FALSE, value |-> body, log |-> "none"]
      [] rsp \in {"403", "4xx5xx", "neterr"} ->
            [raised |-> FALSE, value |-> None, log |-> "skipped"]
      [] OTHER -> [raised |-> TRUE, value |-> None, log |-> "none"]

\* Lines 42-60: what fetch_html returns, or that it raises, for a response.
fetch_html_result(rsp, body) ==
    CASE rsp = "200" -> [raised |-> FALSE, value |-> body, log |-> "none"]
      [] rsp = "403" -> [raised |-> FALSE, value |-> None, log |-> "403 Forbidden"]
      [] rsp = "4xx5xx" -> [raised |-> FALSE, value |-> None, log |-> "HTTP Error"]
      [] rsp = "neterr" -> [raised |-> FALSE, value |-> None, log |-> "Client Error"]
      [] rsp = "timeout" -> [raised |-> FALSE, value |-> None, log |-> "Timeout"]
      [] OTHER -> [raised |-> TRUE, value |-> None, log |-> "none"]

\* A fetch_html coroutine handed to asyncio.gather: waiting for the
\* semaphore ("queued"), holding it in the pacing delay ("sleep"), holding it
\* with the request sent ("request"), or returned ("done").
NewTask(url) == [url |-> url, st |-> "queued", rsp |-> "none", ret |-> None]

\* A batch without the gate: every task starts at once.
Admit_NoGate(ts, value, k) ==
    [tasks |-> [i \in 1..Len(ts) |->
                    IF ts[i].st = "queued" THEN [ts[i] EXCEPT !.st = "sleep"] ELSE ts[i]],
     value |-> value]

\* fetch_html without line 40: a task that gets a permit sends its request
\* at once.
Admit_NoDelay(ts, value, k) ==
    LET Q == {i \in k..Len(ts) : ts[i].st = "queued"}
        A == {i \in Q : Cardinality({j \in Q : j < i}) < value}
    IN  [tasks |-> [i \in 1..Len(ts) |->
                       IF i \in A THEN [ts[i] EXCEPT !.st = "request"] ELSE ts[i]],
         value |-> value - Cardinality(A)]

\* asyncio.Semaphore: the waiters are served first-in first-out, and the
\* tasks of a batch arrive in list order.  With `value` permits free, the
\* first queued tasks take them.
RECURSIVE Admit(_, _, _)
Admit(ts, value, k) ==
    IF k > Len(ts) \/ value <= 0 THEN [tasks |-> ts, value |-> value]
    ELSE IF ts[k].st = "queued"
         THEN Admit([ts EXCEPT ![k].st = "sleep"], value - 1, k + 1)
         ELSE Admit(ts, value, k + 1)

\* A fetch that returns without giving its permit back.
SemRelease_Leak(value) == value

\* sem.release() (leaving `async with sem`, line 38).
SemRelease(value) == value + 1

Holding(ts) == {i \in 1..Len(ts) : ts[i].st \in {"sleep", "request"}}
\* The tasks that have neither returned nor been cancelled.
Pending(ts) == {i \in 1..Len(ts) : ts[i].st \in {"queued", "sleep", "request"}}
InFlight(ts) == {i \in 1..Len(ts) : ts[i].st = "request"}
\* Waiting for the first fetch to return instead of for all of them.
AllDone_Any(ts) == ts = <<>> \/ \E i \in 1..Len(ts) : ts[i].st = "done"

\* `await asyncio.gather(*tasks)` returns when every task has returned.
AllDone(ts) == \A i \in 1..Len(ts) : ts[i].st = "done"

\* asyncio.gather(*tasks): the results in the order of the task list.
gather(ts) == [i \in 1..Len(ts) |-> ts[i].ret]

(***************************************************************************)
(* Files, and the parameters of an invocation.                             *)
(***************************************************************************)
\* An optional integer argument (num_pages, overwrite_last_page).
IntNone == [isNone |-> TRUE, v |-> 0]
Some(n) == [isNone |-> FALSE, v |-> n]

\* previous_files_directory=None
NoDir == "<None>"
\* data_dir of the command-line entry (line 321)
DataDir == "/datasets/"

\* f"{data_dir}answered_ti_e2e_{current_date}.json" (line 322)
MainOutput(date) ==
    [dir |-> DataDir, stem |-> "answered_ti_e2e_", date |-> date, ext |-> ".json"]
\* An output file in the data directory under another name.
OtherOutput == [dir |-> DataDir, stem |-> "out", date |-> 0, ext |-> ".json"]

Dates == 1..2
Paths == {MainOutput(d) : d \in Dates} \cup {OtherOutput}
NoPath == [dir |-> "", stem |-> "", date |-> 0, ext |-> ""]

Absent == [kind |-> "absent", data |-> <<>>]
JsonFile(records) == [kind |-> "json", data |-> records]

\* A path at which there is no directory.
MissingDir == "/missing/"

\* The directories that exist.
IsDir(d) == d = DataDir

\* scrape_ti_e2e_forum_async(output_file, chunk_size, previous_files_directory,
\*                           num_pages, overwrite_last_page), started on `date`.
AsyncCall(date, output_file, chunk_size, dir, num_pages, overwrite_last_page) ==
    [entry |-> "async", date |-> date, output_file |-> output_file,
     chunk_size |-> chunk_size, previous_files_directory |-> dir,
     num_pages |-> num_pages, overwrite_last_page |-> overwrite_last_page]

\* The launcher (lines 305-310) hands its four arguments on by position.
scrape_ti_e2e_forum(date, output_file, chunk_size, dir, overwrite_last_page) ==
    AsyncCall(date, output_file, chunk_size, dir, overwrite_last_page, IntNone)

\* The command-line entry (lines 314-330) started on `date` with
\* --overwriteLastPage `arg` (IntNone when the option is not given).
MainCall(date, arg) ==
    [scrape_ti_e2e_forum(date, MainOutput(date), MainChunkSize, DataDir, arg)
        EXCEPT !.entry = "main"]

(***************************************************************************)
(* The state.                                                              *)
(***************************************************************************)
VARIABLES
    site,           \* the forum crawled (never changes)
    faults,         \* the failures the network of this behaviour can produce
    plan,           \* the invocations still to be made, in order
    files,          \* the file system: path -> Absent or a JSON artifact
    pc,             \* where the orchestrator is
    call,           \* the arguments of the running invocation
    existing_urls,  \* the SeenSet
    num_pages,      \* total page count used by the chunk loop
    chunk_start,    \* the loop variable of `for chunk_start in range(...)`
    chunk_end,
    tasks,          \* the fetch_html tasks of the batch being gathered
    sem,            \* the value of the batch's asyncio.Semaphore
    answered,       \* the items handed to gather_detail_pages
    all_results,    \* the accumulating RunResult
    hist,           \* history, one record per invocation started
    parser,         \* a parser called on its own: its argument and its result
    status_store,   \* status_ws.status_store: session id -> status
    posted,         \* history: the webhook posts handled, with their replies
    sockets,        \* the websocket connections of /ws/{session_id}
    pipe,           \* Pipe.pipe: where the coroutine is
    listener,       \* the task running Pipe.start_websocket_listener
    events,         \* what __event_emitter__ was called with, in order
    collection,     \* the Qdrant collection: whether it exists, its points
    indexing        \* the indexing script: where it is, its data and batches

vars == <<site, faults, plan, files, pc, call, existing_urls, num_pages,
          chunk_start, chunk_end, tasks, sem, answered, all_results, hist,
          parser, status_store, posted, sockets, pipe, listener, events,
          collection, indexing>>

\* The crawler's variables, and those of the status service, the chat pipe
\* and the indexing script.
crawler == <<site, faults, plan, files, pc, call, existing_urls, num_pages,
             chunk_start, chunk_end, tasks, sem, answered, all_results, hist,
             parser>>
backend == <<status_store, posted, sockets, pipe, listener, events,
             collection, indexing>>

\* No parser is called on its own.
NoParse == [fn |-> "none", html |-> None, st |-> "idle", ret |-> <<>>]

\* `status_store = {}` (status_ws.py line 6): the dict with no key.
EmptyDict == [k \in {} |-> ""]
\* Pipe.pipe is not running and no listener task exists.
NoPipe == [pc |-> "idle", session_id |-> "", response |-> "none"]
NoListener == [pc |-> "none", conn |-> "", read |-> 0]
\* The indexing script is not running.
NoIndexing == [pc |-> "idle", date |-> 0, data |-> <<>>, batches |-> <<>>,
               dates |-> <<>>, before |-> {}, writes |-> 0]
\* The collection "questions-collection-combined" of the Qdrant server,
\* there and empty.  `writes` counts the requests that programs other than
\* the indexing script have made on it.
EmptyCollection == [exists |-> TRUE, points |-> {}, writes |-> 0]
\* The status service has just started, nothing else runs.
BackendIdle ==
    /\ status_store = EmptyDict
    /\ posted = <<>>
    /\ sockets = <<>>
    /\ pipe = NoPipe
    /\ listener = NoListener
    /\ events = <<>>
    /\ collection = EmptyCollection
    /\ indexing = NoIndexing

NoCall == AsyncCall(0, NoPath, 0, NoDir, IntNone, IntNone)

\* History kept of an invocation: the files its load read, the listing pages
\* fetched with a body, how often the rendered probe ran, the chunks begun,
\* the items handed to the detail phase and, aligned with them, the url and
\* the response of each detail fetch, whether a detail fetch returned before
\* one earlier in its batch, what ended the run early, the file written,
\* what the renderer gave the probe, for each listing page how many
\* requests were sent for it, and the headers of the requests sent, by the
\* function that sent them.
NoRendering == [kind |-> "none", links |-> <<>>]
NewHist == [loaded |-> {}, ok |-> {}, probes |-> 0, chunks |-> <<>>,
            inputs |-> <<>>, fetched |-> <<>>, overtaken |-> FALSE,
            crash |-> "none", wrote |-> NoPath, rendered |-> NoRendering,
            attempts |-> <<>>, sent |-> {}]
\* A request sent by function `by`.
Sent(by, request) == [by |-> by, headers |-> request.headers]
\* One more request for page p.
Count(a, p) == IF p \in DOMAIN a THEN [a EXCEPT ![p] = @ + 1] ELSE a @@ (p :> 1)
Cur == Len(hist)

InitRun(s, f, pl, fs) ==
    /\ site = s
    /\ faults = f
    /\ plan = pl
    /\ files = fs
    /\ pc = "idle"
    /\ call = NoCall
    /\ existing_urls = {}
    /\ num_pages = 0
    /\ chunk_start = 0
    /\ chunk_end = 0
    /\ tasks = <<>>
    /\ sem = 0
    /\ answered = <<>>
    /\ all_results = <<>>
    /\ hist = <<>>
    /\ parser = NoParse
    /\ BackendIdle

(***************************************************************************)
(* The rendered-page probe (get_last_page_number over fetch_page_full).    *)
(***************************************************************************)
\* What the renderer can give back: the page with its pagination links (the
\* a.last[data-type=last] elements, each with its data-page attribute), an
\* empty document, or an error raised by the browser (launch, navigation or
\* rendering).
RenderError == [kind |-> "error", links |-> <<>>]
RenderedEmpty == [kind |-> "empty", links |-> <<>>]
Rendered(links) == [kind |-> "html", links |-> links]

\* The data-page attribute of a pagination link: a decimal number, a text
\* that is not one, or no such attribute.
DataPage(n) == [attr |-> "int", v |-> n]
BadDataPage == [attr |-> "text", v |-> 0]
NoDataPage == [attr |-> "absent", v |-> 0]

SeqMax(q) == CHOOSE m \in {q[i] : i \in 1..Len(q)} : \A i \in 1..Len(q) : q[i] <= m

\* Lines 63-85.  The error of fetch_page_full (line 65) is not caught.  An
\* empty document and a page without pagination link give None.  max() at
\* line 74 applies int(x["data-page"]) to every link found, so a link
\* without the attribute or with a text raises there (KeyError, ValueError),
\* before the try of lines 79-83.  Otherwise the largest number is returned.
get_last_page_number(html) ==
    IF html.kind = "error"
    THEN [raised |-> TRUE, error |-> "render", value |-> IntNone]
    ELSE IF html.kind = "empty" \/ html.links = <<>>
    THEN [raised |-> FALSE, error |-> "none", value |-> IntNone]
    ELSE IF \E i \in 1..Len(html.links) : html.links[i].attr # "int"
    THEN [raised |-> TRUE, error |-> "data-page", value |-> IntNone]
    ELSE [raised |-> FALSE, error |-> "none",
          value |-> Some(SeqMax([i \in 1..Len(html.links) |-> html.links[i].v]))]

\* Lines 262-271 with the two tests in the other order: the last page, given
\* or probed, wins over num_pages.
ResolveNumPages_LastPageFirst(c, last_page) ==
    IF ~last_page.isNone /\ last_page.v # 0 THEN last_page.v
    ELSE IF ~c.num_pages.isNone THEN c.num_pages.v
    ELSE 1

\* Lines 262-271: the page count of the run.
ResolveNumPages(c, last_page) ==
    IF ~c.num_pages.isNone THEN c.num_pages.v
    ELSE IF ~last_page.isNone /\ last_page.v # 0 THEN last_page.v
    ELSE 1

(***************************************************************************)
(* The chunk loop: for chunk_start in range(1, num_pages+1, chunk_size).   *)
(***************************************************************************)
\* Whether x is an element the range still yields (step # 0).
InRange(x, stop, step) == IF step > 0 THEN x < stop ELSE x > stop
Min(a, b) == IF a <= b THEN a ELSE b
\* Line 277 without the min: the last chunk runs past the last page.
ChunkEnd_NoMin(n, start, size) == start + size - 1

\* Line 277
ChunkEnd(n, start, size) == Min(n, start + size - 1)
\* The next value of the loop variable.
RangeNext(start, size) == start + size

(***************************************************************************)
(* gather_listing_pages, the Answered filter and gather_detail_pages.      *)
(***************************************************************************)
\* The listing batch with the page number left out of the url: every task
\* fetches the first page.
ListingTasks_NoPageInUrl(start_page, end_page) ==
    [i \in 1..(IF end_page >= start_page THEN end_page - start_page + 1 ELSE 0)
        |-> NewTask(base_url_1)]

\* The listing batch over range(start_page, end_page): the last page of the
\* chunk is left out.
ListingTasks_NoPlusOne(start_page, end_page) ==
    [i \in 1..(IF end_page > start_page THEN end_page - start_page ELSE 0)
        |-> NewTask(ListingUrl(start_page + i - 1))]

\* Lines 178-183: one fetch per page of the chunk.
ListingTasks(start_page, end_page) ==
    [i \in 1..(IF end_page >= start_page THEN end_page - start_page + 1 ELSE 0)
        |-> NewTask(ListingUrl(start_page + i - 1))]

\* The listing phase without the SeenSet filter.
NewListings_KeepSeen(listing_data, existing) == listing_data

\* Lines 196-197
NewListings(listing_data, existing) ==
    SelectSeq(listing_data, LAMBDA q : q.url \notin existing)

\* Lines 192-203: parse every page, keep the items that are not yet seen.
RECURSIVE AllNewListings(_, _)
AllNewListings(pages_html, existing) ==
    IF pages_html = <<>> THEN <<>>
    ELSE NewListings(parse_listing_page(Head(pages_html)), existing)
            \o AllNewListings(Tail(pages_html), existing)

\* The filter written as `q["status"] != "Not Answered"`.
AnsweredOf_NotUnanswered(listings) ==
    SelectSeq(listings, LAMBDA q : q.status # "Not Answered")

\* Line 285
AnsweredOf(listings) == SelectSeq(listings, LAMBDA q : q.status = "Answered")

\* Lines 218-219
DetailTasks(answered_questions) ==
    [i \in 1..Len(answered_questions) |-> NewTask(answered_questions[i].url)]

\* The record assembly leaving out the items whose fetch gave no body.
DetailRecords_SkipFailed(answered_questions, detail_htmls) ==
    LET idx == SelectSeq([i \in 1..Len(answered_questions) |-> i],
                         LAMBDA i : ~Falsy(detail_htmls[i]))
    IN  [k \in 1..Len(idx) |->
            LET qa == parse_detail_page(detail_htmls[idx[k]])
            IN  [title |-> answered_questions[idx[k]].title,
                 url |-> answered_questions[idx[k]].url,
                 question |-> qa.question,
                 answer |-> qa.answer]]

\* The record assembly reading detail_htmls[0] for every item.
DetailRecords_FirstBody(answered_questions, detail_htmls) ==
    [i \in 1..Len(answered_questions) |->
        LET qa == parse_detail_page(detail_htmls[1])
        IN  [title |-> answered_questions[i].title,
             url |-> answered_questions[i].url,
             question |-> qa.question,
             answer |-> qa.answer]]

\* Lines 222-231: the i-th record from the i-th item and the i-th body.
DetailRecords(answered_questions, detail_htmls) ==
    [i \in 1..Len(answered_questions) |->
        LET qa == parse_detail_page(detail_htmls[i])
        IN  [title |-> answered_questions[i].title,
             url |-> answered_questions[i].url,
             question |-> qa.question,
             answer |-> qa.answer]]

\* The records of a chunk put in front of those of the chunks before it.
Extend_Prepend(results, details) == details \o results

\* Line 293
Extend(results, details) == results \o details

(***************************************************************************)
(* The dedup store (lines 245-257).                                        *)
(***************************************************************************)
\* The load falling back to the data directory whatever directory is given.
LoadedFiles_NoDirCheck(fs, dir) ==
    {p \in Paths : fs[p] # Absent /\ p.ext = ".json"}

\* The load skipped altogether.
LoadedFiles_Nothing(fs, dir) == {}

\* The files the load reads: the *.json files of the directory, if it is
\* given and exists.
LoadedFiles(fs, dir) ==
    IF dir # NoDir /\ IsDir(dir)
    THEN {p \in Paths : p.dir = dir /\ fs[p] # Absent /\ p.ext = ".json"}
    ELSE {}

\* The load leaving out the records that carry the sentinel pair, so that a
\* later run tries them again.
UrlsOf_SkipSentinels(records) ==
    {records[i].url : i \in {j \in 1..Len(records) :
        records[j].question # NoQuestion \/ records[j].answer # NoAnswer}}

\* Line 253
UrlsOf(records) == {records[i].url : i \in 1..Len(records)}

\* The load assigning the urls of a file (existing_urls = set(...)) instead
\* of adding them: the urls of one file are all that is left.
LoadExistingUrls_OneFile(fs, dir) ==
    LET F == LoadedFiles(fs, dir)
    IN  IF F = {} THEN {} ELSE UrlsOf(fs[CHOOSE p \in F : TRUE].data)

\* Lines 245-253: the urls of every record of every file read.
LoadExistingUrls(fs, dir) == UNION {UrlsOf(fs[p].data) : p \in LoadedFiles(fs, dir)}

(***************************************************************************)
(* The orchestrator: the command-line entry and scrape_ti_e2e_forum_async. *)
(***************************************************************************)
\* The next invocation starts.  The command-line entry first removes the
\* output file of its date if it exists (lines 325-327).
StartRun ==
    /\ pc \in {"idle", "done", "crashed"}
    /\ Pending(tasks) = {}
    /\ plan # <<>>
    /\ call' = Head(plan)
    /\ plan' = Tail(plan)
    /\ files' = IF Head(plan).entry = "main"
                THEN [files EXCEPT ![Head(plan).output_file] = Absent]
                ELSE files
    /\ pc' = "load"
    /\ existing_urls' = {}
    /\ num_pages' = 0
    /\ chunk_start' = 0
    /\ chunk_end' = 0
    /\ tasks' = <<>>
    /\ sem' = 0
    /\ answered' = <<>>
    /\ all_results' = <<>>
    /\ hist' = Append(hist, NewHist)
    /\ UNCHANGED <<backend, parser, site, faults>>

\* Lines 245-257: the SeenSet is built from the prior artifacts.
LoadExisting ==
    /\ pc = "load"
    /\ existing_urls' = LoadExistingUrls(files, call.previous_files_directory)
    /\ hist' = [hist EXCEPT ![Cur].loaded =
                    LoadedFiles(files, call.previous_files_directory)]
    /\ pc' = "probe"
    /\ UNCHANGED <<backend, parser, site, faults, plan, files, call, num_pages, chunk_start,
                   chunk_end, tasks, sem, answered, all_results>>

\* What the renderer usually shows for the site: its pagination links (at
\* the top and at the bottom of the list), no pagination link at all, or an
\* error of the browser.
UsualRenderings(s) ==
    { Rendered(<<DataPage(Len(s.pages)), DataPage(Len(s.pages))>>),
      Rendered(<<>>),
      RenderError }

\* Everything the renderer can show: also a link to page 0, an empty
\* document, a link whose data-page is a text, and a link without data-page
\* beside a good one.  A behaviour has these when "render" is among its
\* faults.
Renderings(s) ==
    UsualRenderings(s) \cup
        { Rendered(<<DataPage(0)>>),
          RenderedEmpty,
          Rendered(<<BadDataPage>>),
          Rendered(<<DataPage(Len(s.pages)), NoDataPage>>) }

\* Lines 259-271 with an explicit overwrite_last_page: no probe.
ProbeSkipped ==
    /\ pc = "probe"
    /\ ~call.overwrite_last_page.isNone
    /\ num_pages' = ResolveNumPages(call, call.overwrite_last_page)
    /\ chunk_start' = 1
    /\ pc' = "loop"
    /\ UNCHANGED <<backend, parser, site, faults, plan, files, call, existing_urls, chunk_end,
                   tasks, sem, answered, all_results, hist>>

\* Lines 259-271 without one: get_last_page_number renders the first page.
\* An exception it raises is not caught and ends the run.  A link with a
\* bad data-page raises at line 74, after fetch_page_full has loaded the
\* page; the browser raises in launch or new_page, before page.goto is
\* called (lines 20-21), or in page.goto (line 22), after the request.
Probe ==
    /\ pc = "probe"
    /\ call.overwrite_last_page.isNone
    /\ \E html \in (IF "render" \in faults THEN Renderings(site)
                     ELSE UsualRenderings(site)) :
         LET r == get_last_page_number(html)
         IN  IF r.raised
             THEN \E requested \in (IF r.error = "render" THEN BOOLEAN ELSE {TRUE}) :
                  /\ pc' = "crashed"
                  /\ hist' = [hist EXCEPT
                                 ![Cur].probes = @ + 1,
                                 ![Cur].rendered = html,
                                 ![Cur].crash = r.error,
                                 ![Cur].sent = IF requested
                                               THEN @ \cup {Sent("fetch_page_full",
                                                                 PageRequest(base_url_1))}
                                               ELSE @]
                  /\ UNCHANGED <<num_pages, chunk_start>>
             ELSE /\ num_pages' = ResolveNumPages(call, r.value)
                  /\ chunk_start' = 1
                  /\ pc' = "loop"
                  /\ hist' = [hist EXCEPT
                                 ![Cur].probes = @ + 1,
                                 ![Cur].rendered = html,
                                 ![Cur].sent = @ \cup {Sent("fetch_page_full",
                                                            PageRequest(base_url_1))}]
    /\ UNCHANGED <<backend, parser, site, faults, plan, files, call, existing_urls, chunk_end,
                   tasks, sem, answered, all_results>>

\* The head of the chunk loop (lines 276-277) and, for the next chunk, the
\* start of its listing batch (lines 174-185).  range() raises on a step of 0.
ChunkBegin ==
    /\ pc = "loop"
    /\ IF call.chunk_size = 0
       THEN /\ pc' = "crashed"
            /\ hist' = [hist EXCEPT ![Cur].crash = "range"]
            /\ UNCHANGED <<chunk_end, tasks, sem>>
       ELSE IF InRange(chunk_start, num_pages + 1, call.chunk_size)
       THEN LET e == ChunkEnd(num_pages, chunk_start, call.chunk_size)
                a == Admit(ListingTasks(chunk_start, e), ListingConcurrency, 1)
            IN  /\ chunk_end' = e
                /\ tasks' = a.tasks
                /\ sem' = a.value
                /\ hist' = [hist EXCEPT ![Cur].chunks = Append(@, <<chunk_start, e>>)]
                /\ pc' = "listing"
       ELSE /\ pc' = "write"
            /\ UNCHANGED <<chunk_end, tasks, sem, hist>>
    /\ UNCHANGED <<backend, parser, site, faults, plan, files, call, existing_urls, num_pages,
                   chunk_start, answered, all_results>>

\* The pacing delay of a fetch is over: it sends its request (lines 40-43).
\* The page of a listing url.
PageOf(url) == IF url.id = 0 THEN 1 ELSE url.id

\* The batch being gathered, or the one that was when a fetch raised: the
\* tasks of a listing batch fetch listing urls.
Phase ==
    IF pc # "crashed" THEN pc
    ELSE IF tasks # <<>> /\ tasks[1].url.path = base_url_1.path THEN "listing"
    ELSE "detail"

\* After a fetch has raised, the other tasks of its batch run on until
\* asyncio.run cancels them.
Wake(i) ==
    /\ pc \in {"listing", "detail", "crashed"}
    /\ tasks[i].st = "sleep"
    /\ tasks' = [tasks EXCEPT ![i].st = "request"]
    /\ hist' = [hist EXCEPT
                    ![Cur].attempts = IF Phase = "listing"
                                      THEN Count(@, PageOf(tasks[i].url)) ELSE @,
                    ![Cur].sent = @ \cup {Sent("fetch_html", Request(tasks[i].url))}]
    /\ UNCHANGED <<backend, parser, site, faults, plan, files, pc, call, existing_urls, num_pages,
                   chunk_start, chunk_end, sem, answered, all_results>>

\* A detail fetch that parses its own body and appends the record to the
\* shared result as soon as it returns.
Respond_AppendsRecord(i, rsp) ==
    /\ pc \in {"listing", "detail"}
    /\ tasks[i].st = "request"
    /\ rsp \in {"200"} \cup faults
    /\ LET r == fetch_html_result(rsp, Serve(site, tasks[i].url))
           a == Admit([tasks EXCEPT ![i].st = "done", ![i].rsp = rsp, ![i].ret = r.value],
                      SemRelease(sem), 1)
       IN  IF r.raised
           THEN /\ pc' = "crashed"
                /\ hist' = [hist EXCEPT ![Cur].crash = rsp]
                /\ UNCHANGED <<tasks, sem, all_results>>
           ELSE /\ tasks' = a.tasks
                /\ sem' = a.value
                /\ hist' = IF pc = "listing" /\ rsp = "200"
                           THEN [hist EXCEPT ![Cur].ok = @ \cup {PageOf(tasks[i].url)}]
                           ELSE hist
                /\ all_results' =
                      IF pc = "detail"
                      THEN Extend(all_results,
                                  DetailRecords(<<answered[i]>>, <<r.value>>))
                      ELSE all_results
                /\ pc' = pc
    /\ UNCHANGED <<backend, parser, site, faults, plan, files, call, existing_urls, num_pages,
                   chunk_start, chunk_end, answered>>

\* The request of a fetch ends with response rsp (lines 43-60).  The fetch
\* returns or raises and leaves `async with sem` either way, so the next
\* queued task is admitted.  The first exception of a batch reaches the
\* orchestrator through gather and ends the run; what the other tasks do
\* before they are cancelled changes nothing but the requests sent.
Respond(i, rsp) ==
    /\ pc \in {"listing", "detail", "crashed"}
    /\ tasks[i].st = "request"
    /\ rsp \in {"200"} \cup faults
    /\ LET r == fetch_html_result(rsp, Serve(site, tasks[i].url))
           a == Admit([tasks EXCEPT ![i].st = "done", ![i].rsp = rsp, ![i].ret = r.value],
                      SemRelease(sem), 1)
       IN  /\ tasks' = a.tasks
           /\ sem' = a.value
           /\ IF pc = "crashed"
              THEN UNCHANGED <<pc, hist>>
              ELSE IF r.raised
              THEN /\ pc' = "crashed"
                   /\ hist' = [hist EXCEPT ![Cur].crash = rsp]
              ELSE /\ hist' = IF pc = "listing"
                              THEN IF rsp = "200"
                                   THEN [hist EXCEPT ![Cur].ok = @ \cup {PageOf(tasks[i].url)}]
                                   ELSE hist
                              ELSE IF \E j \in 1..(i - 1) : tasks[j].st # "done"
                                   THEN [hist EXCEPT ![Cur].overtaken = TRUE]
                                   ELSE hist
                   /\ pc' = pc
    /\ UNCHANGED <<backend, parser, site, faults, plan, files, call, existing_urls, num_pages,
                   chunk_start, chunk_end, answered, all_results>>

\* The run has ended with the exception of a fetch: asyncio.run cancels the
\* tasks of the batch that are still pending (line 310).  A cancelled task
\* that held a permit leaves `async with sem`.
CancelPending ==
    /\ pc = "crashed"
    /\ Pending(tasks) # {}
    /\ tasks' = [i \in 1..Len(tasks) |->
                    IF i \in Pending(tasks) THEN [tasks[i] EXCEPT !.st = "cancelled"]
                    ELSE tasks[i]]
    /\ sem' = sem + Cardinality(Holding(tasks))
    /\ UNCHANGED <<backend, parser, site, faults, plan, files, pc, call, existing_urls,
                   num_pages, chunk_start, chunk_end, answered, all_results, hist>>

\* The listing phase adding the urls it lets through to the SeenSet.
ListingJoin_UpdatesSeen ==
    /\ pc = "listing"
    /\ AllDone(tasks)
    /\ LET listings == AllNewListings(gather(tasks), existing_urls)
           a == Admit(DetailTasks(AnsweredOf(listings)), DetailConcurrency, 1)
       IN  /\ answered' = AnsweredOf(listings)
           /\ tasks' = a.tasks
           /\ sem' = a.value
           /\ existing_urls' = existing_urls \cup UrlsOf(listings)
    /\ hist' = [hist EXCEPT ![Cur].inputs = @ \o answered']
    /\ pc' = "detail"
    /\ UNCHANGED <<backend, parser, site, faults, plan, files, call, num_pages,
                   chunk_start, chunk_end, all_results>>

\* The listing batch is gathered (line 185): parse and filter (lines 192-203),
\* keep the answered items (line 285), start the detail batch (lines 215-220).
ListingJoin ==
    /\ pc = "listing"
    /\ AllDone(tasks)
    /\ LET listings == AllNewListings(gather(tasks), existing_urls)
           a == Admit(DetailTasks(AnsweredOf(listings)), DetailConcurrency, 1)
       IN  /\ answered' = AnsweredOf(listings)
           /\ tasks' = a.tasks
           /\ sem' = a.value
    /\ hist' = [hist EXCEPT ![Cur].inputs = @ \o answered']
    /\ pc' = "detail"
    /\ UNCHANGED <<backend, parser, site, faults, plan, files, call, existing_urls, num_pages,
                   chunk_start, chunk_end, all_results>>

\* The end of a chunk with a checkpoint: the result so far is written to the
\* output file after every chunk.
DetailJoin_Checkpoint ==
    /\ pc = "detail"
    /\ AllDone(tasks)
    /\ all_results' = Extend(all_results, DetailRecords(answered, gather(tasks)))
    /\ files' = [files EXCEPT ![call.output_file] = JsonFile(all_results')]
    /\ chunk_start' = RangeNext(chunk_start, call.chunk_size)
    /\ tasks' = <<>>
    /\ hist' = [hist EXCEPT ![Cur].fetched =
                    @ \o [i \in 1..Len(tasks) |->
                            [url |-> tasks[i].url, rsp |-> tasks[i].rsp,
                             chunk |-> Len(hist[Cur].chunks)]]]
    /\ pc' = "loop"
    /\ UNCHANGED <<backend, parser, site, faults, plan, call, existing_urls, num_pages,
                   chunk_end, sem, answered>>

\* The detail batch is gathered (line 220): assemble the records (lines
\* 222-231), append them (line 293), go to the next chunk.
DetailJoin ==
    /\ pc = "detail"
    /\ AllDone(tasks)
    /\ all_results' = Extend(all_results, DetailRecords(answered, gather(tasks)))
    /\ chunk_start' = RangeNext(chunk_start, call.chunk_size)
    /\ tasks' = <<>>
    /\ hist' = [hist EXCEPT ![Cur].fetched =
                    @ \o [i \in 1..Len(tasks) |->
                            [url |-> tasks[i].url, rsp |-> tasks[i].rsp,
                             chunk |-> Len(hist[Cur].chunks)]]]
    /\ pc' = "loop"
    /\ UNCHANGED <<backend, parser, site, faults, plan, files, call, existing_urls, num_pages,
                   chunk_end, sem, answered>>

\* Lines 296-297: the result is written to the output file.
WriteOutput ==
    /\ pc = "write"
    /\ files' = [files EXCEPT ![call.output_file] = JsonFile(all_results)]
    /\ hist' = [hist EXCEPT ![Cur].wrote = call.output_file]
    /\ pc' = "done"
    /\ UNCHANGED <<backend, parser, site, faults, plan, call, existing_urls, num_pages, chunk_start,
                   chunk_end, tasks, sem, answered, all_results>>

\* The steps of a behaviour in which no fetch raises (no response is
\* undecodable): no task is ever pending when a run has ended.
NextNoRaise ==
    \/ StartRun
    \/ LoadExisting
    \/ ProbeSkipped
    \/ Probe
    \/ ChunkBegin
    \/ \E i \in 1..Len(tasks) : Wake(i)
    \/ \E i \in 1..Len(tasks) : \E rsp \in Responses : Respond(i, rsp)
    \/ ListingJoin
    \/ DetailJoin
    \/ WriteOutput

Next ==
    \/ StartRun
    \/ LoadExisting
    \/ ProbeSkipped
    \/ Probe
    \/ ChunkBegin
    \/ \E i \in 1..Len(tasks) : Wake(i)
    \/ \E i \in 1..Len(tasks) : \E rsp \in Responses : Respond(i, rsp)
    \/ CancelPending
    \/ ListingJoin
    \/ DetailJoin
    \/ WriteOutput

(***************************************************************************)
(* Spec: one invocation, any of the modelled sites, every kind of failure. *)
(***************************************************************************)
\* The record an earlier run wrote for thread k.
OldRecord(k) == [title |-> Titles[k], url |-> Url(k),
                 question |-> QTexts[k], answer |-> ATexts[k]]

EmptyDisk == [p \in Paths |-> Absent]
\* The data directory at the start: empty, or holding an artifact of date 1
\* with thread 1, or that one and another artifact with thread 3.
InitialDisks ==
    { EmptyDisk,
      [EmptyDisk EXCEPT ![MainOutput(1)] = JsonFile(<<OldRecord(1)>>)],
      [EmptyDisk EXCEPT ![MainOutput(1)] = JsonFile(<<OldRecord(1)>>),
                        ![OtherOutput] = JsonFile(<<OldRecord(3)>>)] }

\* Chunk sizes and the page-count override of the direct calls.
MaxCallChunk == 2
OverridePages == 2

\* The invocations: the command line on either date with and without
\* --overwriteLastPage, and direct calls of scrape_ti_e2e_forum_async.
MainCalls == {MainCall(d, a) : d \in Dates, a \in {IntNone, Some(OverridePages)}}
AsyncCalls ==
    {AsyncCall(1, OtherOutput, cs, dir, pages[1], pages[2]) :
        cs \in 1..MaxCallChunk, dir \in {NoDir, DataDir},
        pages \in {<<IntNone, IntNone>>, <<Some(OverridePages), IntNone>>,
                   <<IntNone, Some(OverridePages)>>}}
    \cup {AsyncCall(1, OtherOutput, 1, MissingDir, IntNone, IntNone)}
Calls == MainCalls \cup AsyncCalls

Init ==
    \E s \in Sites : \E fs \in InitialDisks : \E c \in Calls :
        InitRun(s, Responses \ {"200"}, <<c>>, fs)

Spec == Init /\ [][Next]_vars

(***************************************************************************)
(* Properties of a run.                                                    *)
(***************************************************************************)
Running == Cur >= 1 /\ pc \notin {"idle", "load"}
H == hist[Cur]
IsSentinel(rec) == rec.question = NoQuestion /\ rec.answer = NoAnswer
\* The records of the output artifact of the run that has finished.
Written == files[call.output_file].data
\* The items the listing parser finds on page p of the site.
ItemsOfPage(p) == parse_listing_page(Serve(site, ListingUrl(p)))
Range(q) == {q[i] : i \in 1..Len(q)}

\* C1: a listing item whose url is in the SeenSet built from the prior
\* artifacts never reaches the detail phase: it is not among the items handed
\* to gather_detail_pages, no detail fetch has its url, and no record of the
\* accumulating or the written result has it.
C1_SeenNeverFetched ==
    Running =>
        /\ pc # "done" =>
              existing_urls = LoadExistingUrls(files, call.previous_files_directory)
        /\ \A k \in 1..Len(H.inputs) : H.inputs[k].url \notin existing_urls
        /\ pc = "detail" => \A i \in 1..Len(tasks) : tasks[i].url \notin existing_urls
        /\ \A k \in 1..Len(H.fetched) : H.fetched[k].url \notin existing_urls
        /\ \A k \in 1..Len(all_results) : all_results[k].url \notin existing_urls
        /\ pc = "done" => \A k \in 1..Len(Written) : Written[k].url \notin existing_urls

\* A finished run that fetched a listing page holding an answered item whose
\* url was in the SeenSet, and that still wrote records.
C1_Witness ==
    /\ Running
    /\ pc = "done"
    /\ Written # <<>>
    /\ \E p \in H.ok : \E q \in Range(ItemsOfPage(p)) :
           q.status = "Answered" /\ q.url \in existing_urls

\* C10: every item handed to the detail phase, every detail fetch and every
\* record corresponds to a listing item of a fetched page whose status is
\* Answered; an item with another status is never fetched nor written.
C10_OnlyAnswered ==
    Running =>
        /\ \A k \in 1..Len(H.inputs) :
              /\ H.inputs[k].status = "Answered"
              /\ \E p \in H.ok : H.inputs[k] \in Range(ItemsOfPage(p))
        /\ pc = "detail" =>
              /\ Len(tasks) = Len(answered)
              /\ \A i \in 1..Len(tasks) :
                    /\ answered[i].status = "Answered"
                    /\ tasks[i].url = answered[i].url
        /\ Len(H.fetched) <= Len(H.inputs)
        /\ \A k \in 1..Len(H.fetched) : H.fetched[k].url = H.inputs[k].url
        /\ Len(all_results) = Len(H.fetched)
        /\ \A k \in 1..Len(all_results) : all_results[k].url = H.inputs[k].url
        /\ pc = "done" => Written = all_results

\* A finished run that fetched a page with an item that is not Answered and
\* wrote the record of an answered one.
C10_Witness ==
    /\ Running
    /\ pc = "done"
    /\ Written # <<>>
    /\ \E p \in H.ok : \E q \in Range(ItemsOfPage(p)) :
           q.status # "Answered" /\ q.url \notin existing_urls

\* The body a detail fetch with response rsp hands to the parser.
BodyFor(f) == IF f.rsp = "200" THEN Serve(site, f.url) ELSE None

\* C7: the record of an item whose detail fetch failed, whatever the failure,
\* carries exactly the sentinel question and the sentinel answer (in the
\* accumulating result and in the written one): never a null or a partly
\* filled pair.
C7_FailedDetailIsSentinel ==
    Running =>
        /\ \A k \in 1..Len(H.fetched) :
              H.fetched[k].rsp \in Failures =>
                  /\ k <= Len(all_results)
                  /\ all_results[k].url = H.fetched[k].url
                  /\ all_results[k].question = NoQuestion
                  /\ all_results[k].answer = NoAnswer
        /\ pc = "done" =>
              \A k \in 1..Len(H.fetched) :
                  H.fetched[k].rsp \in Failures =>
                      k <= Len(Written) /\ IsSentinel(Written[k])

\* A finished run one of whose detail fetches failed and another succeeded
\* with a complete page.
C7_Witness ==
    /\ Running
    /\ pc = "done"
    /\ \E k \in 1..Len(H.fetched) : H.fetched[k].rsp \in Failures
    /\ \E k \in 1..Len(Written) : ~IsSentinel(Written[k])

\* C8: whatever the order in which the fetches of a detail batch return, the
\* k-th record carries the title and the url of the k-th item handed to the
\* detail phase, and the question and answer parsed from the body fetched
\* from that item's url.
C8_PositionalPairing ==
    Running =>
        /\ Len(all_results) = Len(H.fetched)
        /\ \A k \in 1..Len(all_results) :
              /\ all_results[k].title = H.inputs[k].title
              /\ all_results[k].url = H.inputs[k].url
              /\ H.fetched[k].url = H.inputs[k].url
              /\ all_results[k].question = parse_detail_page(BodyFor(H.fetched[k])).question
              /\ all_results[k].answer = parse_detail_page(BodyFor(H.fetched[k])).answer

\* A finished run in whose detail batch a later fetch returned before an
\* earlier one, both with a page of their own.
C8_Witness ==
    /\ Running
    /\ pc = "done"
    /\ H.overtaken
    /\ \E j, k \in 1..Len(Written) :
          /\ j < k
          /\ Written[j].question \notin {NoQuestion, Written[k].question}
          /\ Written[k].question # NoQuestion

\* The pages of the chunks begun so far.
PagesOf(chunks) == UNION {chunks[c][1]..chunks[c][2] : c \in 1..Len(chunks)}

\* C6: a fetch that times out ends alone.  The timeout never ends the run or
\* the batch; the body of every listing page fetched beside it is still
\* parsed into the detail phase's input; the record of the timed-out detail
\* fetch of an Answered item is there and carries the sentinel pair; and the
\* record of every sibling of its batch that got a page carries what that
\* page holds.
C6_TimeoutEndsOnlyItsFetch ==
    Running =>
        /\ H.crash # "timeout"
        /\ \A i \in 1..Len(tasks) :
              tasks[i].rsp = "timeout" => tasks[i].st = "done" /\ tasks[i].ret = None
        /\ pc \in {"detail", "loop", "write", "done"} =>
              \A p \in H.ok : \A q \in Range(ItemsOfPage(p)) :
                  q.status = "Answered" /\ q.url \notin existing_urls
                      => q \in Range(H.inputs)
        /\ \A k \in 1..Len(H.fetched) :
              H.fetched[k].rsp = "timeout" =>
                  /\ H.inputs[k].status = "Answered"
                  /\ all_results[k].title = H.inputs[k].title
                  /\ all_results[k].url = H.inputs[k].url
                  /\ IsSentinel(all_results[k])
                  /\ \A j \in 1..Len(H.fetched) :
                        H.fetched[j].chunk = H.fetched[k].chunk /\ H.fetched[j].rsp = "200"
                            => /\ all_results[j].url = H.fetched[j].url
                               /\ all_results[j].question =
                                     parse_detail_page(Serve(site, H.fetched[j].url)).question
                               /\ all_results[j].answer =
                                     parse_detail_page(Serve(site, H.fetched[j].url)).answer

\* A finished run with a detail batch in which one fetch timed out and
\* another returned a complete page: the first has a sentinel record, the
\* second its own text.
C6_Witness ==
    /\ Running
    /\ pc = "done"
    /\ \E j, k \in 1..Len(H.fetched) :
          /\ H.fetched[k].rsp = "timeout"
          /\ H.fetched[j].rsp = "200"
          /\ H.fetched[j].chunk = H.fetched[k].chunk
          /\ IsSentinel(Written[k])
          /\ ~IsSentinel(Written[j])

NoDuplicateUrls(records) ==
    \A j, k \in 1..Len(records) : j # k => records[j].url # records[k].url

\* The listing pages fetched so far list no url twice (the pages do not
\* overlap, and no page repeats a thread).
DistinctListed ==
    \A p1, p2 \in H.ok :
        \A i \in 1..Len(ItemsOfPage(p1)) : \A j \in 1..Len(ItemsOfPage(p2)) :
            <<p1, i>> # <<p2, j>> => ItemsOfPage(p1)[i].url # ItemsOfPage(p2)[j].url

\* C3 as stated: after any run, no two records of the written result share
\* a url.
C3_Original ==
    Running /\ pc = "done" => NoDuplicateUrls(Written)

\* C3, amended: when the listing pages the run fetched list no url more than
\* once, no two records of the accumulating result, and none of the written
\* result, share a url.
C3_NoDuplicateUrls ==
    Running /\ DistinctListed =>
        /\ NoDuplicateUrls(all_results)
        /\ pc = "done" => NoDuplicateUrls(Written)

\* A finished run over pages without a repeated url that wrote two records.
C3_Witness ==
    /\ Running
    /\ pc = "done"
    /\ DistinctListed
    /\ Len(Written) >= 2

(***************************************************************************)
(* SpecLive: one invocation whose requests end in a body or in one of the  *)
(* four classified failures.  The event loop runs every task that can run, *)
(* and every request returns or times out.                                 *)
(***************************************************************************)
\* The disks of these behaviours: nothing in the data directory, or an
\* earlier output of either kind in it.
LiveDisks == {fs \in InitialDisks : fs = EmptyDisk \/ fs[OtherOutput] # Absent}

InitLive ==
    \E s \in Sites : \E fs \in LiveDisks : \E c \in Calls :
        InitRun(s, Failures, <<c>>, fs)

SpecLive == InitLive /\ [][NextNoRaise]_vars /\ WF_vars(NextNoRaise)

SomeFetchFailed == Running /\ \E i \in 1..Len(tasks) : tasks[i].rsp \in Failures

\* The run is over: every chunk of [1, num_pages] was processed and the
\* result was written to the output file.
FinishedInFull ==
    /\ pc = "done"
    /\ PagesOf(H.chunks) = 1..num_pages
    /\ H.wrote = call.output_file
    /\ files[call.output_file] = JsonFile(all_results)

\* C5: a fetch that ends as 403, other 4xx/5xx, network error or timeout has
\* returned None and has raised nothing (the run is never ended by it), and
\* after it the run goes on through its batch and the remaining chunks to
\* the final write.
C5_FailureIsSkipped ==
    /\ [](Running =>
            /\ \A i \in 1..Len(tasks) :
                  tasks[i].rsp \in Failures => tasks[i].st = "done" /\ tasks[i].ret = None
            /\ H.crash \notin Failures)
    /\ (SomeFetchFailed ~> FinishedInFull)

\* A finished run of two chunks in which a listing fetch and a detail fetch
\* failed.
C5_Witness ==
    /\ Running
    /\ FinishedInFull
    /\ Len(H.chunks) >= 2
    /\ PagesOf(H.chunks) \ H.ok # {}
    /\ \E k \in 1..Len(H.fetched) : H.fetched[k].rsp \in Failures

(***************************************************************************)
(* SpecChunks: the chunk loop of lines 276-277 on its own, for every page  *)
(* count in 1..MaxTotalPages and every chunk size in 1..MaxChunkSize.      *)
(***************************************************************************)
InitChunks ==
    \E n \in 1..MaxTotalPages : \E cs \in 1..MaxChunkSize :
        /\ site = SiteC
        /\ faults = {}
        /\ plan = <<>>
        /\ files = EmptyDisk
        /\ pc = "partition"
        /\ call = AsyncCall(1, OtherOutput, cs, NoDir, Some(n), IntNone)
        /\ existing_urls = {}
        /\ num_pages = n
        /\ chunk_start = 1
        /\ chunk_end = 0
        /\ tasks = <<>>
        /\ sem = 0
        /\ answered = <<>>
        /\ all_results = <<>>
        /\ hist = <<NewHist>>
        /\ parser = NoParse
        /\ BackendIdle
    /\ BackendIdle

\* One pass of the loop head: the next chunk, or the end of the range.
PartitionStep ==
    /\ pc = "partition"
    /\ IF InRange(chunk_start, num_pages + 1, call.chunk_size)
       THEN /\ chunk_end' = ChunkEnd(num_pages, chunk_start, call.chunk_size)
            /\ hist' = [hist EXCEPT ![Cur].chunks = Append(@, <<chunk_start, chunk_end'>>)]
            /\ chunk_start' = RangeNext(chunk_start, call.chunk_size)
            /\ pc' = pc
       ELSE /\ pc' = "partitioned"
            /\ UNCHANGED <<chunk_start, chunk_end, hist>>
    /\ UNCHANGED <<backend, parser, site, faults, plan, files, call, existing_urls, num_pages,
                   tasks, sem, answered, all_results>>

SpecChunks == InitChunks /\ [][PartitionStep]_vars

\* C9: for every total_pages >= 1 and chunk size >= 1 the chunks come in
\* ascending order, each with start_page <= end_page, the first starting at
\* page 1, each next one starting right after the end of the one before, and
\* the last ending at total_pages: they cover [1, total_pages] exactly once.
\* total_pages = 250 with chunk size 100 gives (1,100), (101,200), (201,250).
C9_ChunksPartitionPages ==
    LET ch == H.chunks
    IN  /\ \A k \in 1..Len(ch) : 1 <= ch[k][1] /\ ch[k][1] <= ch[k][2] /\ ch[k][2] <= num_pages
        /\ ch # <<>> => ch[1][1] = 1
        /\ \A k \in 1..(Len(ch) - 1) : ch[k + 1][1] = ch[k][2] + 1
        /\ pc = "partitioned" => ch # <<>> /\ ch[Len(ch)][2] = num_pages
        /\ pc = "partitioned" /\ num_pages = 250 /\ call.chunk_size = 100
              => ch = << <<1, 100>>, <<101, 200>>, <<201, 250>> >>

\* The loop has ended for 250 pages in chunks of 100, after three chunks.
C9_Witness ==
    /\ pc = "partitioned"
    /\ num_pages = 250
    /\ call.chunk_size = 100
    /\ Len(H.chunks) = 3

(***************************************************************************)
(* SpecGate: one chunk whose listing batch has one page more than the      *)
(* listing bound and whose detail batch has one item more than the detail  *)
(* bound.  Every request is answered with a page.                          *)
(***************************************************************************)
GatePages == ListingConcurrency + 1
GateThreads == DetailConcurrency + 1

\* GateThreads answered threads dealt over GatePages pages.
SiteGate ==
    [pages |-> [p \in 1..GatePages |->
                   ListingBody(IF p + GatePages <= GateThreads
                               THEN <<RowVerifiedBefore(p), RowVerifiedBefore(p + GatePages)>>
                               ELSE <<RowVerifiedBefore(p)>>)],
     threads |-> [k \in 1..GateThreads |-> FullDetail(k)]]

InitGate ==
    InitRun(SiteGate, {},
            <<AsyncCall(1, OtherOutput, MainChunkSize, NoDir, IntNone, Some(GatePages))>>,
            EmptyDisk)

NextGate ==
    \/ StartRun
    \/ LoadExisting
    \/ ProbeSkipped
    \/ ChunkBegin
    \/ \E i \in 1..Len(tasks) : Wake(i)
    \/ \E i \in 1..Len(tasks) : \E rsp \in Responses : Respond(i, rsp)
    \/ ListingJoin
    \/ DetailJoin
    \/ WriteOutput

SpecGate == InitGate /\ [][NextGate]_vars

\* C4: at every moment of a listing batch at most 5 fetches hold a permit of
\* the gate, so at most 5 requests are in flight, and at every moment of a
\* detail batch at most 10, however many pages or items the batch has; the
\* semaphore's value is the number of permits not held; 5 is less than 10.
C4_BoundedInFlight ==
    /\ pc = "listing" =>
          /\ Cardinality(Holding(tasks)) <= 5
          /\ Cardinality(InFlight(tasks)) <= 5
          /\ sem = 5 - Cardinality(Holding(tasks))
    /\ pc = "detail" =>
          /\ Cardinality(Holding(tasks)) <= 10
          /\ Cardinality(InFlight(tasks)) <= 10
          /\ sem = 10 - Cardinality(Holding(tasks))
    /\ ListingConcurrency = 5
    /\ DetailConcurrency = 10
    /\ ListingConcurrency < DetailConcurrency

\* A detail batch of eleven items with ten requests in flight and the
\* eleventh fetch waiting for a permit.
C4_Witness ==
    /\ pc = "detail"
    /\ Len(tasks) = 11
    /\ Cardinality(InFlight(tasks)) = 10
    /\ \E i \in 1..Len(tasks) : tasks[i].st = "queued"

(***************************************************************************)
(* SpecRerun: MaxRuns invocations one after the other against the same     *)
(* site, from the command line or by direct calls that cover the site's    *)
(* first pages in chunks of one page, on the same or on a later date.  A   *)
(* request ends with a page or with a timeout.                             *)
(***************************************************************************)
RerunCalls ==
    {MainCall(d, IntNone) : d \in Dates}
        \cup {AsyncCall(d, OtherOutput, 1, DataDir, IntNone, Some(OverridePages)) : d \in Dates}

RerunPlans ==
    {pl \in [1..MaxRuns -> RerunCalls] :
        \A r \in 1..(MaxRuns - 1) : pl[r].date <= pl[r + 1].date}

InitRerun ==
    \E s \in Sites : \E fs \in InitialDisks : \E pl \in RerunPlans :
        InitRun(s, {"timeout"}, pl, fs)

SpecRerun == InitRerun /\ [][NextNoRaise]_vars

\* The run before the current one.
P == hist[Cur - 1]

\* The current run is a rerun: the run before it completed and wrote its
\* output into the data directory, the current run's prior-artifacts
\* directory is that directory, and the source is unchanged: every listing
\* page that gave the current run a body gave one to the run before.
RerunOnPreviousOutput ==
    /\ Cur >= 2
    /\ Running
    /\ P.wrote # NoPath
    /\ call.previous_files_directory = DataDir
    /\ H.ok \subseteq P.ok

\* The current run has found nothing new: nothing was handed to the detail
\* phase, no detail fetch was issued, and the result, accumulated or
\* written, is empty.
NothingNew ==
    /\ H.inputs = <<>>
    /\ pc = "detail" => tasks = <<>>
    /\ H.fetched = <<>>
    /\ all_results = <<>>
    /\ pc = "done" => Written = <<>>

\* C2: a run made right after another against the unchanged source, with the
\* directory that holds the first run's output as its prior-artifacts
\* directory, yields no new record: it issues no detail fetch and writes an
\* empty result.
C2_RerunYieldsNothingNew ==
    RerunOnPreviousOutput => NothingNew

(***************************************************************************)
(* The probe and the page count.                                           *)
(***************************************************************************)
\* The caller gave a page count: num_pages or overwrite_last_page of
\* scrape_ti_e2e_forum_async, or --overwriteLastPage on the command line
\* (which the launcher hands on as num_pages).
OverrideSupplied == ~call.num_pages.isNone \/ ~call.overwrite_last_page.isNone

\* C11: the rendered-page probe runs at most once in a run, and not at all
\* when the caller supplied a page count, directly or through the launcher
\* and the --overwriteLastPage option.
C11_ProbeOnlyWithoutOverride ==
    Running =>
        /\ H.probes <= 1
        /\ OverrideSupplied => H.probes = 0

\* The probe failed: the browser raised, the document was empty, the page
\* had no pagination link, or a pagination link had no usable page number.
ProbeFailure(r) ==
    \/ r.kind \in {"error", "empty"}
    \/ r.kind = "html" /\ r.links = <<>>
    \/ \E i \in 1..Len(r.links) : r.links[i].attr # "int"

\* C12: in a run without a page count from the caller, a failure of the
\* rendered-page probe, of any kind, does not end the run: the probe yields
\* no page count and the run goes on with a total of one page.
C12_ProbeFailureIsNotFatal ==
    Running /\ ~OverrideSupplied /\ H.probes = 1 /\ ProbeFailure(H.rendered) =>
        /\ H.crash = "none"
        /\ pc # "crashed"
        /\ num_pages = 1

(***************************************************************************)
(* SpecProbe: the start of one invocation up to the chunk loop, for every  *)
(* combination of the page-count arguments and everything the renderer can *)
(* show.                                                                   *)
(***************************************************************************)
\* The page-count arguments: not given, 0, or a count; num_pages and
\* overwrite_last_page get different counts.
NumPagesArgs == {IntNone, Some(0), Some(OverridePages)}
LastPageArgs == {IntNone, Some(0), Some(OverridePages + 1)}

ProbeCalls ==
    {MainCall(1, a) : a \in NumPagesArgs}
        \cup {AsyncCall(1, OtherOutput, 1, NoDir, n, o) : n \in NumPagesArgs, o \in LastPageArgs}

InitProbe ==
    \E s \in Sites : \E c \in ProbeCalls : InitRun(s, {"render"}, <<c>>, EmptyDisk)

NextProbe ==
    \/ StartRun
    \/ LoadExisting
    \/ ProbeSkipped
    \/ Probe

SpecProbe == InitProbe /\ [][NextProbe]_vars

\* The page counts the caller supplied.
Supplied ==
    {a.v : a \in {b \in {call.num_pages, call.overwrite_last_page} : ~b.isNone}}

\* The page number the probe found, if it ran.
Found == IF H.probes = 1 THEN get_last_page_number(H.rendered).value ELSE IntNone

\* C13 as stated: the page count of the chunk loop is the override whenever
\* one is supplied, otherwise the number the probe found when it found one,
\* otherwise 1.
C13_Original ==
    Running /\ pc = "loop" =>
        IF Supplied # {} THEN num_pages \in Supplied
        ELSE IF ~Found.isNone THEN num_pages = Found.v
        ELSE num_pages = 1

\* C13, amended: the page count of the chunk loop is num_pages whenever it
\* is supplied; otherwise overwrite_last_page when it is supplied and not 0;
\* otherwise, when no overwrite_last_page is supplied, the number the probe
\* found when it found one that is not 0; otherwise 1.
C13_PageCountPrecedence ==
    Running /\ pc = "loop" =>
        num_pages =
            IF ~call.num_pages.isNone THEN call.num_pages.v
            ELSE IF ~call.overwrite_last_page.isNone
                 THEN (IF call.overwrite_last_page.v # 0
                       THEN call.overwrite_last_page.v ELSE 1)
            ELSE IF ~Found.isNone /\ Found.v # 0 THEN Found.v
            ELSE 1

\* The chunk loop is reached by a call that supplied both arguments with
\* different counts: num_pages is the one used.
C13_Witness ==
    /\ Running
    /\ pc = "loop"
    /\ ~call.num_pages.isNone
    /\ ~call.overwrite_last_page.isNone
    /\ call.num_pages.v # call.overwrite_last_page.v
    /\ call.overwrite_last_page.v # 0
    /\ call.num_pages.v # 0
    /\ num_pages = call.num_pages.v

(***************************************************************************)
(* The order of the phases.                                                *)
(***************************************************************************)
\* The steps from one phase to the next: Probe, then per chunk ListingPhase,
\* FilterPhase with the start of DetailPhase, Flush; then the write and
\* Done.  A fatal error leaves any phase; a next invocation starts over.
PhaseSteps ==
    { <<"idle", "load">>, <<"load", "probe">>, <<"probe", "loop">>,
      <<"loop", "listing">>, <<"listing", "detail">>, <<"detail", "loop">>,
      <<"loop", "write">>, <<"write", "done">>,
      <<"done", "load">>, <<"crashed", "load">> }
        \cup {<<ph, "crashed">> : ph \in {"probe", "loop", "listing", "detail"}}

\* Every fetch of the batch has returned.
BatchOver == \A i \in 1..Len(tasks) : tasks[i].st = "done"

\* C14: a run goes through Probe, then for each chunk in order the listing
\* phase, the filter, the detail phase and the flush, then Done.  The detail
\* batch of a chunk starts only when every listing fetch of the chunk has
\* returned; a listing batch runs only listing fetches of its chunk's pages
\* and a detail batch only fetches of the items kept by the filter; the
\* next chunk starts only when every detail fetch of the chunk has returned
\* and a record for each was appended.
C14_PhasesInOrder ==
    [][ /\ pc' # pc => <<pc, pc'>> \in PhaseSteps
        /\ pc = "listing" =>
              \A i \in 1..Len(tasks) :
                  /\ tasks[i].url.path = "processors-forum"
                  /\ PageOf(tasks[i].url) \in chunk_start..chunk_end
        /\ pc = "detail" =>
              /\ Len(tasks) = Len(answered)
              /\ \A i \in 1..Len(tasks) : tasks[i].url = answered[i].url
        /\ pc = "listing" /\ pc' = "detail" => BatchOver
        /\ pc = "detail" /\ pc' = "loop" =>
              /\ BatchOver
              /\ Len(all_results') = Len(all_results) + Len(tasks)
              /\ tasks' = <<>>
        /\ pc = "loop" /\ pc' = "listing" =>
              /\ tasks = <<>>
              /\ Len(all_results) = Len(H.inputs)
              /\ \A i \in 1..Len(tasks') : tasks'[i].st # "done"
        /\ pc = "loop" /\ pc' = "write" => tasks = <<>> /\ Len(all_results) = Len(H.inputs)
      ]_vars

\* A detail fetch of the second chunk is in flight, the records of the first
\* chunk being in the result.
C14_Witness ==
    /\ Running
    /\ pc = "detail"
    /\ Len(H.chunks) >= 2
    /\ all_results # <<>>
    /\ \E i \in 1..Len(tasks) : tasks[i].st = "request"

\* C15: the output artifact is written once in a run, by the step after the
\* last chunk's flush, and then holds the records of all chunks; until that
\* step the run writes nothing (no file changes while a chunk is processed;
\* the only other change of a file is the removal the command-line entry
\* makes before the run starts).
C15_WrittenOnceAtEnd ==
    /\ [](Running /\ pc # "done" => H.wrote = NoPath)
    /\ [](Running /\ pc = "done" =>
            /\ H.wrote = call.output_file
            /\ Written = all_results
            /\ PagesOf(H.chunks) = 1..num_pages
            /\ Len(Written) = Len(H.inputs)
            /\ \A k \in 1..Len(Written) : Written[k].url = H.inputs[k].url)
    /\ [][ files' # files =>
              \/ /\ pc = "write"
                 /\ pc' = "done"
                 /\ files' = [files EXCEPT ![call.output_file] = JsonFile(all_results)]
              \/ /\ pc \in {"idle", "done", "crashed"}
                 /\ pc' = "load"
         ]_vars

\* A finished run of two chunks whose output holds a record of each.
C15_Witness ==
    /\ Running
    /\ pc = "done"
    /\ Len(H.chunks) >= 2
    /\ Len(Written) >= 2
    /\ \E j, k \in 1..Len(H.fetched) : H.fetched[j].chunk # H.fetched[k].chunk

\* C16: whatever fetches fail, as 403, other 4xx/5xx, network error or
\* timeout, no listing page gets a second request and none outside
\* [1, total_pages] gets one; a run that is done has sent exactly one listing
\* request for each page of [1, total_pages]; and once the page count is
\* known the run eventually is done, every request returning or timing out.
C16_FullPassAndDone ==
    /\ [](Running =>
            /\ \A p \in DOMAIN H.attempts : p \in 1..num_pages /\ H.attempts[p] = 1
            /\ pc = "done" => DOMAIN H.attempts = 1..num_pages)
    /\ ((Running /\ pc = "loop") ~> (pc = "done"))

\* A finished run over three pages in which every listing fetch failed.
C16_Witness ==
    /\ Running
    /\ pc = "done"
    /\ num_pages = 3
    /\ DOMAIN H.attempts = 1..3
    /\ H.ok = {}

(***************************************************************************)
(* What a step may change.                                                 *)
(***************************************************************************)
\* C17: the SeenSet changes only at the start of a run, where it is emptied
\* and then built from the prior artifacts; no listing, filter, detail,
\* flush or write step adds a url to it or removes one, and no url of a
\* record the run produced is in it.
C17_SeenSetFrozen ==
    /\ [][ existing_urls' # existing_urls => pc = "load" \/ pc' = "load" ]_vars
    /\ [](Running =>
            /\ \A k \in 1..Len(H.inputs) : H.inputs[k].url \notin existing_urls
            /\ UrlsOf(all_results) \cap existing_urls = {})

\* A finished run that had loaded urls and has written records.
C17_Witness ==
    /\ Running
    /\ pc = "done"
    /\ existing_urls # {}
    /\ Written # <<>>

\* C18: the accumulating result changes only in a step of the orchestrator
\* taken when every fetch of the batch has returned (the flush at the end of
\* a chunk, or the start of a run, which empties it); a step of a fetch task,
\* sending its request or returning, leaves it as it is.
C18_ResultChangedBetweenPhases ==
    [][ /\ all_results' # all_results =>
              /\ BatchOver
              /\ \/ pc = "detail" /\ pc' = "loop"
                 \/ pc' = "load"
        /\ (\E i \in 1..Len(tasks) : Len(tasks') = Len(tasks) /\ tasks'[i].st # tasks[i].st)
              => all_results' = all_results
      ]_vars

\* Between two chunks, the result holding the records of a detail batch in
\* which a later fetch returned before an earlier one.
C18_Witness ==
    /\ Running
    /\ pc = "loop"
    /\ Len(all_results) >= 2
    /\ H.overtaken

(***************************************************************************)
(* SpecConfig: one direct invocation with a chunk size that is negative,   *)
(* zero or one, over a given page count.  Every request gets a page.       *)
(***************************************************************************)
ChunkSizes == {-1, 0, 1}

ConfigCalls ==
    {AsyncCall(1, OtherOutput, cs, NoDir, pages[1], pages[2]) :
        cs \in ChunkSizes,
        pages \in {<<Some(OverridePages), IntNone>>, <<IntNone, Some(OverridePages)>>}}

InitConfig ==
    \E s \in Sites : \E c \in ConfigCalls : InitRun(s, {}, <<c>>, EmptyDisk)

SpecConfig == InitConfig /\ [][NextNoRaise]_vars

\* C19: a run whose chunk size is zero or negative ends with a fatal error:
\* it is never done and writes no output.
C19_InvalidChunkSizeIsFatal ==
    Running /\ call.chunk_size <= 0 =>
        /\ pc # "done"
        /\ H.wrote = NoPath

(***************************************************************************)
(* The cold start.                                                         *)
(***************************************************************************)
\* No directory was given, or there is no directory at the path given, or
\* the directory held no artifact when it was loaded.
ColdStart ==
    \/ call.previous_files_directory = NoDir
    \/ ~IsDir(call.previous_files_directory)
    \/ IsDir(call.previous_files_directory) /\ H.loaded = {}

\* C20: after a load from no directory, from a missing directory or from an
\* empty one the run goes on with an empty SeenSet, and the SeenSet keeps no
\* listing item back: every Answered item of every listing page fetched is
\* handed to the detail phase.
C20_ColdStartSeesNothing ==
    Running /\ ColdStart =>
        /\ existing_urls = {}
        /\ H.loaded = {}
        /\ pc \in {"detail", "loop", "write", "done"} =>
              \A p \in H.ok : \A q \in Range(ItemsOfPage(p)) :
                  q.status = "Answered" => q \in Range(H.inputs)

\* A finished run that was given a missing directory and has written the
\* record of a thread that an artifact of the data directory already holds.
C20_Witness ==
    /\ Running
    /\ pc = "done"
    /\ call.previous_files_directory = MissingDir
    /\ files[MainOutput(1)] # Absent
    /\ \E k \in 1..Len(Written) : Written[k].url \in UrlsOf(files[MainOutput(1)].data)

(***************************************************************************)
(* The dedup store and the parsers.                                        *)
(***************************************************************************)
\* The artifact files of the prior-artifacts directory of the run.
ArtifactsInDir ==
    {p \in Paths : p.dir = call.previous_files_directory /\ files[p].kind = "json"}

\* Every url a record can have.
ThreadUrls == {Url(k) : k \in 1..Len(Titles)}

\* C21: from the load until the run writes its own output, a url is in the
\* SeenSet if and only if some record of some artifact file of the
\* prior-artifacts directory has it (no url when the directory is not given
\* or holds no artifact).
C21_SeenSetIsUnion ==
    Running /\ pc \notin {"done", "crashed"} =>
        /\ existing_urls \subseteq ThreadUrls
        /\ \A u \in ThreadUrls :
              u \in existing_urls <=>
                  \E p \in ArtifactsInDir :
                      \E k \in 1..Len(files[p].data) : files[p].data[k].url = u

\* A run that loaded two artifact files with different urls.
C21_Witness ==
    /\ Running
    /\ pc = "write"
    /\ Cardinality(ArtifactsInDir) = 2
    /\ Cardinality(existing_urls) = 2

(***************************************************************************)
(* SpecParse: parse_listing_page and parse_detail_page called on their     *)
(* own, on every body of a bounded set.                                    *)
(***************************************************************************)
\* The longest row of sibling nodes of a listing body.
MaxRowLen == 3

\* The sibling nodes: an item container with a link, one whose link has no
\* href, one without link, and a status marker with each of the three
\* indicators and with none of them.
ParseCells ==
    { NameCell(TRUE, Titles[1], Url(1)),
      NameCell(TRUE, Titles[2], NoUrl),
      NameCell(FALSE, "", NoUrl),
      StatusCell("verified"),
      StatusCell("suggested"),
      StatusCell("unanswered"),
      StatusCell("other") }

RowsUpTo(n) == UNION {[1..m -> ParseCells] : m \in 1..n}

\* The indicators a marker can carry.
Marks == {"verified", "suggested", "unanswered", "other"}

\* Two items and their markers as siblings under one parent, every marker
\* after its item, and every marker before its item.
MarkersFollow ==
    {<<NameCell(TRUE, Titles[1], Url(1)), StatusCell(a),
       NameCell(TRUE, Titles[2], Url(2)), StatusCell(b)>> : a \in Marks, b \in Marks}
MarkersPrecede ==
    {<<StatusCell(a), NameCell(TRUE, Titles[1], Url(1)),
       StatusCell(b), NameCell(TRUE, Titles[2], Url(2))>> : a \in Marks, b \in Marks}

\* No body (a failed fetch), an empty one, a page without container, pages
\* of one parent with up to MaxRowLen nodes, pages of two parents with one
\* node each, and pages of one parent with two items and their markers.
ListingInputs ==
    {None, EmptyBody, ListingBody(<<>>)}
        \cup {ListingBody(<<r>>) : r \in RowsUpTo(MaxRowLen)}
        \cup {ListingBody(<<r1, r2>>) : r1 \in RowsUpTo(1), r2 \in RowsUpTo(1)}
        \cup {ListingBody(<<r>>) : r \in MarkersFollow \cup MarkersPrecede}

\* No body, an empty one, and pages with and without the question region,
\* the verified/suggested element and the content region inside it.
DetailInputs ==
    {None, EmptyBody}
        \cup {DetailBody(q, TRUE, c) : q \in {NoEl, QTexts[1]}, c \in {NoEl, ATexts[1]}}
        \cup {DetailBody(q, FALSE, NoEl) : q \in {NoEl, QTexts[1]}}

ParseCall(fn, html) == [fn |-> fn, html |-> html, st |-> "called", ret |-> <<>>]

InitParse ==
    /\ site = SiteC
    /\ faults = {}
    /\ plan = <<>>
    /\ files = EmptyDisk
    /\ pc = "idle"
    /\ call = NoCall
    /\ existing_urls = {}
    /\ num_pages = 0
    /\ chunk_start = 0
    /\ chunk_end = 0
    /\ tasks = <<>>
    /\ sem = 0
    /\ answered = <<>>
    /\ all_results = <<>>
    /\ hist = <<>>
    /\ \/ \E html \in ListingInputs : parser = ParseCall("parse_listing_page", html)
       \/ \E html \in DetailInputs : parser = ParseCall("parse_detail_page", html)
    /\ BackendIdle

\* parse_listing_page returns (lines 88-129).
ParseListing ==
    /\ parser.st = "called"
    /\ parser.fn = "parse_listing_page"
    /\ parser' = [parser EXCEPT !.st = "returned", !.ret = parse_listing_page(parser.html)]
    /\ UNCHANGED <<site, faults, plan, files, pc, call, existing_urls, num_pages,
                   chunk_start, chunk_end, tasks, sem, answered, all_results, hist,
                   backend>>

\* parse_detail_page returns (lines 132-158).
ParseDetail ==
    /\ parser.st = "called"
    /\ parser.fn = "parse_detail_page"
    /\ parser' = [parser EXCEPT !.st = "returned", !.ret = parse_detail_page(parser.html)]
    /\ UNCHANGED <<site, faults, plan, files, pc, call, existing_urls, num_pages,
                   chunk_start, chunk_end, tasks, sem, answered, all_results, hist,
                   backend>>

NextParse == ParseListing \/ ParseDetail

SpecParse == InitParse /\ [][NextParse]_vars

\* parse_listing_page has returned for a body that is not empty.
ListingParsed ==
    parser.fn = "parse_listing_page" /\ parser.st = "returned" /\ ~Falsy(parser.html)
DetailParsed == parser.fn = "parse_detail_page" /\ parser.st = "returned"

\* The positions <<r, k>> of the item containers with a link, and the place
\* of each among them in document order.
Linked(rows) ==
    {rk \in UNION {{<<r, k>> : k \in 1..Len(rows[r])} : r \in 1..Len(rows)} :
        rows[rk[1]][rk[2]].tag = "name" /\ rows[rk[1]][rk[2]].link}
ItemIndex(rows, rk) ==
    Cardinality({x \in Linked(rows) :
                    x[1] < rk[1] \/ (x[1] = rk[1] /\ x[2] <= rk[2])})
\* The positions of the status markers among the siblings of a row.
Markers(row) == {j \in 1..Len(row) : row[j].tag = "status"}
\* The status an indicator stands for.
StatusNamed(mark) ==
    IF mark \in {"verified", "suggested"} THEN "Answered"
    ELSE IF mark = "unanswered" THEN "Not Answered"
    ELSE "Unknown"

\* C22: an item whose container has one status marker among its siblings,
\* before or after it, is Answered when the marker carries the verified or
\* the suggested indicator, Not Answered when it carries the unanswered
\* one and Unknown when it carries none of them; an item without a marker
\* among its siblings is Unknown.
C22_StatusFromMarker ==
    ListingParsed =>
        \A rk \in Linked(parser.html.rows) :
            LET row == parser.html.rows[rk[1]]
                i == ItemIndex(parser.html.rows, rk)
            IN  Cardinality(Markers(row)) <= 1 =>
                    /\ i \in 1..Len(parser.ret)
                    /\ parser.ret[i].status =
                          IF Markers(row) = {} THEN "Unknown"
                          ELSE StatusNamed(row[CHOOSE j \in Markers(row) : TRUE].mark)

\* The parser has returned Answered for an item with a verified marker
\* before it.
C22_Witness ==
    /\ ListingParsed
    /\ parser.html.rows = <<RowVerifiedBefore(1)>>
    /\ parser.ret = <<[title |-> Titles[1], url |-> Url(1), status |-> "Answered"]>>

\* C23: the marker that decides the status of an item is the nearest one
\* among the preceding siblings of its container when there is one,
\* whatever it carries and whatever follows; only without a preceding
\* marker it is the nearest one among the following siblings.
C23_PrecedingMarkerFirst ==
    ListingParsed =>
        \A rk \in Linked(parser.html.rows) :
            LET row == parser.html.rows[rk[1]]
                i == ItemIndex(parser.html.rows, rk)
                before == {j \in Markers(row) : j < rk[2]}
                after == {j \in Markers(row) : j > rk[2]}
            IN  /\ i \in 1..Len(parser.ret)
                /\ before # {} =>
                      parser.ret[i].status =
                          StatusNamed(row[CHOOSE j \in before : \A m \in before : m <= j].mark)
                /\ before = {} /\ after # {} =>
                      parser.ret[i].status =
                          StatusNamed(row[CHOOSE j \in after : \A m \in after : j <= m].mark)

\* The parser has returned for an item between a marker without indicator
\* and a verified marker: the item is Unknown.
C23_Witness ==
    /\ ListingParsed
    /\ parser.html.rows =
          << <<StatusCell("other"), NameCell(TRUE, Titles[1], Url(1)), StatusCell("verified")>> >>
    /\ parser.ret[1].status = "Unknown"

\* C24: the parser returns the empty sequence for no body and for an empty
\* one; for any other body it returns one item per container with a link,
\* with the title and the url of that link, in document order, and nothing
\* for a container without link.
C24_OneItemPerLinkedContainer ==
    parser.fn = "parse_listing_page" /\ parser.st = "returned" =>
        IF Falsy(parser.html) THEN parser.ret = <<>>
        ELSE /\ Len(parser.ret) = Cardinality(Linked(parser.html.rows))
             /\ \A rk \in Linked(parser.html.rows) :
                    LET c == parser.html.rows[rk[1]][rk[2]]
                        i == ItemIndex(parser.html.rows, rk)
                    IN  /\ parser.ret[i].title = c.title
                        /\ parser.ret[i].url = c.url

\* The parser has returned two items for a page whose parent holds a
\* container without link between two with one.
C24_Witness ==
    /\ ListingParsed
    /\ parser.html.rows =
          << <<NameCell(TRUE, Titles[1], Url(1)), NameCell(FALSE, "", NoUrl),
               NameCell(TRUE, Titles[2], NoUrl)>> >>
    /\ Len(parser.ret) = 2
    /\ parser.ret[2].title = Titles[2]

\* C25: parse_detail_page returns the sentinel pair for no body and for an
\* empty one.  For any other body the question is the text of the question
\* region, or the question sentinel without that region, whatever the
\* answer; and the answer is the text of the content region of the
\* verified/suggested element, or the answer sentinel without that element
\* or without that region, whatever the question.
C25_QuestionAndAnswerApart ==
    DetailParsed =>
        IF Falsy(parser.html)
        THEN parser.ret = [question |-> NoQuestion, answer |-> NoAnswer]
        ELSE /\ parser.html.question = NoEl => parser.ret.question = NoQuestion
             /\ parser.html.question # NoEl => parser.ret.question = parser.html.question
             /\ ~parser.html.answer_div \/ parser.html.content = NoEl
                    => parser.ret.answer = NoAnswer
             /\ parser.html.answer_div /\ parser.html.content # NoEl
                    => parser.ret.answer = parser.html.content

\* The parser has returned the answer of a page without question region.
C25_Witness ==
    /\ DetailParsed
    /\ parser.html = DetailBody(NoEl, TRUE, ATexts[1])
    /\ parser.ret = [question |-> NoQuestion, answer |-> ATexts[1]]

(***************************************************************************)
(* The transport: pacing, the identification header, the permits.          *)
(***************************************************************************)
\* The permits of the gate of the batch being gathered.
GateSize == IF pc = "listing" THEN ListingConcurrency ELSE DetailConcurrency

\* C26: a fetch sends its request only after its own pacing delay, and it
\* starts that delay only once it holds a permit of the gate: a task whose
\* request is out was in its delay or had its request out one step before,
\* a task in its delay was waiting for a permit or in its delay one step
\* before or has just been started with a permit, and the tasks in their
\* delay or with a request out are exactly the holders of the permits
\* taken.
C26_DelayBeforeRequest ==
    /\ [](pc \in {"listing", "detail"} =>
            /\ sem >= 0
            /\ Cardinality(Holding(tasks)) + sem = GateSize)
    /\ [][\A i \in 1..Len(tasks') :
            LET same == i <= Len(tasks) /\ tasks[i].url = tasks'[i].url /\ pc' = pc
            IN  /\ tasks'[i].st = "request" =>
                      same /\ tasks[i].st \in {"sleep", "request"}
                /\ tasks'[i].st = "sleep" =>
                      \/ same /\ tasks[i].st \in {"queued", "sleep"}
                      \/ pc' # pc /\ pc' \in {"listing", "detail"}]_vars

\* A detail batch with requests out, a fetch in its delay and a fetch
\* waiting for a permit.
C26_Witness ==
    /\ pc = "detail"
    /\ \E i, j, k \in 1..Len(tasks) :
          /\ tasks[i].st = "request"
          /\ tasks[j].st = "sleep"
          /\ tasks[k].st = "queued"

\* C27: in a run without a page count from the caller, every request sent,
\* by fetch_html for a listing or a detail page and by the rendered-page
\* probe alike, carries the custom User-Agent.
C27_EveryRequestIdentified ==
    Running /\ ~OverrideSupplied =>
        \A r \in H.sent : r.headers.UserAgent = USER_AGENT

(***************************************************************************)
(* The records of a completed run.                                         *)
(***************************************************************************)
\* The items of the listing pages 1..n that gave the run a body, in page
\* order, that are Answered and whose url is not in the SeenSet; an item
\* listed twice is there twice.
RECURSIVE AnsweredUnseen(_)
AnsweredUnseen(n) ==
    IF n <= 0 THEN <<>>
    ELSE AnsweredUnseen(n - 1) \o
            (IF n \in H.ok
             THEN SelectSeq(ItemsOfPage(n),
                            LAMBDA q : q.status = "Answered" /\ q.url \notin existing_urls)
             ELSE <<>>)

\* C28: in a completed run the records written are, one for one and in
\* order, the Answered items with a url outside the SeenSet of the listing
\* pages the run got, each as often as it was listed: as many records as
\* such items, the k-th record with the title and the url of the k-th item,
\* and a sentinel record where the detail fetch failed.
C28_OneRecordPerAnsweredItem ==
    Running /\ pc = "done" =>
        LET items == AnsweredUnseen(num_pages)
        IN  /\ Len(Written) = Len(items)
            /\ Len(H.fetched) = Len(items)
            /\ \A k \in 1..Len(items) :
                  /\ Written[k].title = items[k].title
                  /\ Written[k].url = items[k].url
                  /\ H.fetched[k].rsp \in Failures => IsSentinel(Written[k])

\* A completed run with a failed detail fetch and an item listed twice.
C28_Witness ==
    /\ Running
    /\ pc = "done"
    /\ \E k \in 1..Len(H.fetched) : H.fetched[k].rsp \in Failures
    /\ ~NoDuplicateUrls(Written)

(***************************************************************************)
(* SpecSentinel: MaxRuns invocations one after the other, as in SpecRerun, *)
(* starting with an empty data directory, against the site with a thread   *)
(* listed twice or the site of one page.                                   *)
(***************************************************************************)
InitSentinel ==
    \E s \in {SiteB, SiteC} : \E pl \in RerunPlans :
        InitRun(s, {"timeout"}, pl, EmptyDisk)

SpecSentinel == InitSentinel /\ [][NextNoRaise]_vars

\* The urls whose detail fetch failed in run r.
FailedIn(r) ==
    {hist[r].fetched[k].url :
        k \in {j \in 1..Len(hist[r].fetched) : hist[r].fetched[j].rsp \in Failures}}

\* The current run loaded the artifact that run r wrote: run r completed,
\* no run after it wrote to the same path, and the load of the current run
\* read that file.
LoadedArtifactOf(r) ==
    /\ hist[r].wrote # NoPath
    /\ \A m \in (r + 1)..(Cur - 1) : hist[m].wrote # hist[r].wrote
    /\ hist[r].wrote \in H.loaded

HasUrl(records, u) == \E k \in 1..Len(records) : records[k].url = u

\* C29: in a run that loaded the artifact of an earlier run, every url whose
\* detail fetch failed in that earlier run has a sentinel record in the
\* artifact (until the current run writes its own output), is in the
\* SeenSet, and is never handed to the detail phase, fetched or written by
\* the current run: the sentinel is not replaced.
C29_SentinelIsFinal ==
    Running =>
        \A r \in 1..(Cur - 1) :
            LoadedArtifactOf(r) =>
                \A u \in FailedIn(r) :
                    /\ u \in existing_urls
                    /\ pc # "done" =>
                          \E k \in 1..Len(files[hist[r].wrote].data) :
                              /\ files[hist[r].wrote].data[k].url = u
                              /\ IsSentinel(files[hist[r].wrote].data[k])
                    /\ ~HasUrl(H.inputs, u)
                    /\ pc = "detail" => ~HasUrl(tasks, u)
                    /\ ~HasUrl(H.fetched, u)
                    /\ ~HasUrl(all_results, u)
                    /\ pc = "done" => ~HasUrl(Written, u)

\* A second run that completed after loading the artifact of the first,
\* and that got a listing page with an Answered item whose detail fetch
\* had failed in the first.
C29_Witness ==
    /\ Cur = 2
    /\ Running
    /\ pc = "done"
    /\ LoadedArtifactOf(1)
    /\ \E p \in H.ok : \E q \in Range(ItemsOfPage(p)) :
           q.status = "Answered" /\ q.url \in FailedIn(1)

(***************************************************************************)
(* SpecQueue: one chunk whose listing batch has one page more than the     *)
(* listing bound, with requests that end in a body or in one of the four   *)
(* classified failures.  The event loop runs every task that can run, and  *)
(* every request returns or times out.                                     *)
(***************************************************************************)
\* GatePages pages; the first lists an answered thread, the others an
\* unanswered one each.
SiteQueue ==
    [pages |-> [p \in 1..GatePages |->
                   ListingBody(IF p = 1 THEN <<RowVerifiedBefore(1)>>
                               ELSE <<RowUnansweredAfter(p)>>)],
     threads |-> (1 :> FullDetail(1))]

\* In each behaviour the requests end in a body or in one kind of failure.
InitQueue ==
    \E f \in Failures :
        InitRun(SiteQueue, {f},
                <<AsyncCall(1, OtherOutput, MainChunkSize, NoDir, IntNone, Some(GatePages))>>,
                EmptyDisk)

SpecQueue == InitQueue /\ [][NextGate]_vars /\ WF_vars(NextGate)

Gathering == pc \in {"listing", "detail"}
\* The fetches waiting for a permit.
Waiting(ts) == {i \in 1..Len(ts) : ts[i].st = "queued"}

\* C30: whatever its outcome (a body, a 403, another HTTP error, a network
\* error, a timeout), a fetch that has returned holds no permit: the permits
\* taken are those of the fetches in their delay or with a request out, and
\* none is taken once every fetch of the batch has returned.  A fetch that
\* waits for a permit gets one while the batch is still under way, and
\* every batch comes to the point where all its fetches have returned and
\* all permits are free.
C30_PermitsAlwaysReleased ==
    /\ [](Gathering =>
            /\ sem = GateSize - Cardinality(Holding(tasks))
            /\ \A i \in 1..Len(tasks) :
                  tasks[i].rsp \in Failures \cup {"200"} => tasks[i].st = "done"
            /\ AllDone(tasks) => sem = GateSize)
    /\ (pc = "listing" /\ Waiting(tasks) # {})
          ~> (pc = "listing" /\ Waiting(tasks) = {} /\ ~AllDone(tasks))
    /\ Gathering ~> (Gathering /\ AllDone(tasks) /\ sem = GateSize)

\* A listing batch of six fetches, all returned, the last of them timed
\* out and others with a body, and all five permits free.
C30_Witness ==
    /\ pc = "listing"
    /\ Len(tasks) = GatePages
    /\ AllDone(tasks)
    /\ tasks[Len(tasks)].rsp = "timeout"
    /\ {tasks[i].rsp : i \in 1..Len(tasks)} = {"200", "timeout"}
    /\ sem = ListingConcurrency

(***************************************************************************)
(* The order of the result.                                                *)
(***************************************************************************)
\* The record of item q when its detail request ended as f.
RecordOf(q, f) ==
    [title |-> q.title, url |-> q.url,
     question |-> parse_detail_page(BodyFor(f)).question,
     answer |-> parse_detail_page(BodyFor(f)).answer]

\* C31: the written result of a completed run is fixed by the page
\* contents, the SeenSet and the outcome of each request, whatever the
\* order in which the concurrent fetches ran and returned: its k-th record
\* is that of the k-th Answered unseen item in the order of chunk, listing
\* page and place on the page, with the text its own detail request gave.
C31_ResultIndependentOfOrder ==
    Running /\ pc = "done" =>
        LET items == AnsweredUnseen(num_pages)
        IN  /\ Len(H.fetched) = Len(items)
            /\ \A j, k \in 1..Len(H.fetched) :
                  j < k => H.fetched[j].chunk <= H.fetched[k].chunk
            /\ \A k \in 1..Len(items) : H.fetched[k].url = items[k].url
            /\ Written = [k \in 1..Len(items) |-> RecordOf(items[k], H.fetched[k])]

\* A completed run of two chunks, each with a record, in which a detail
\* fetch returned before one that was started before it.
C31_Witness ==
    /\ Running
    /\ pc = "done"
    /\ H.overtaken
    /\ Len(H.chunks) >= 2
    /\ \E j, k \in 1..Len(H.fetched) : H.fetched[j].chunk # H.fetched[k].chunk
    /\ Len(Written) = Len(H.fetched)

(***************************************************************************)
(* SpecAbort: one run from the command line on a data directory that holds *)
(* an artifact of date 1 and another artifact; the browser can raise, and  *)
(* a request can end in a body that does not decode.                       *)
(***************************************************************************)
AbortDisk ==
    [EmptyDisk EXCEPT ![MainOutput(1)] = JsonFile(<<OldRecord(1)>>),
                      ![OtherOutput] = JsonFile(<<OldRecord(3)>>)]

InitAbort ==
    \E s \in Sites : \E c \in MainCalls : InitRun(s, {"undecodable"}, <<c>>, AbortDisk)

\* The steps of a run from the command line: the launcher never passes
\* overwrite_last_page on, so the probe is never skipped.
NextCli ==
    \/ StartRun
    \/ LoadExisting
    \/ Probe
    \/ ChunkBegin
    \/ \E i \in 1..Len(tasks) : Wake(i)
    \/ \E i \in 1..Len(tasks) : \E rsp \in Responses : Respond(i, rsp)
    \/ ListingJoin
    \/ DetailJoin
    \/ WriteOutput

\* The command line with responses that do not decode.
NextAbort ==
    \/ StartRun
    \/ LoadExisting
    \/ Probe
    \/ ChunkBegin
    \/ \E i \in 1..Len(tasks) : Wake(i)
    \/ \E i \in 1..Len(tasks) : \E rsp \in Responses : Respond(i, rsp)
    \/ CancelPending
    \/ ListingJoin
    \/ DetailJoin
    \/ WriteOutput

SpecAbort == InitAbort /\ [][NextAbort]_vars

\* C32: when a run from the command line has ended with a fatal error,
\* before its final write, the files of the data directory are those it
\* was started on.
C32_AbortKeepsArtifacts ==
    Running /\ call.entry = "main" /\ pc = "crashed" => files = AbortDisk

(***************************************************************************)
(* SpecCli: MaxRuns completed or aborted runs from the command line, one   *)
(* after the other on the same or on a later date, starting with an empty  *)
(* data directory.  Every request is answered with a page; the probe finds *)
(* the last page, or no pagination link, or the browser raises.            *)
(***************************************************************************)
CliPlans ==
    {pl \in [1..MaxRuns -> MainCalls] :
        \A r \in 1..(MaxRuns - 1) : pl[r].date <= pl[r + 1].date}

InitCli ==
    \E s \in Sites : \E pl \in CliPlans : InitRun(s, {}, pl, EmptyDisk)

SpecCli == InitCli /\ [][NextCli]_vars

\* The artifact files of the data directory.
Artifacts == {p \in Paths : p.dir = DataDir /\ files[p].kind = "json"}

\* C33: at every moment of a sequence of runs from the command line on one
\* data directory, and so after each completed run, no url is in the
\* records of two different artifact files of the directory.
C33_NoUrlInTwoArtifacts ==
    \A p1, p2 \in Artifacts :
        p1 # p2 => UrlsOf(files[p1].data) \cap UrlsOf(files[p2].data) = {}

\* Two completed runs, the second on the next day, that each wrote records;
\* and the second run got a listing page with an item the first had written.
C33_Witness ==
    /\ Cur = 2
    /\ pc = "done"
    /\ P.wrote = MainOutput(1)
    /\ H.wrote = MainOutput(2)
    /\ files[MainOutput(1)].data # <<>>
    /\ files[MainOutput(2)].data # <<>>
    /\ \E p \in H.ok : \E q \in Range(ItemsOfPage(p)) :
           q.url \in UrlsOf(files[MainOutput(1)].data)

(***************************************************************************)
(* Items and markers as siblings under one parent.                         *)
(***************************************************************************)
\* C34: on a page whose two items and their markers are siblings under one
\* parent, the status of each item is the one its own marker stands for,
\* when every marker follows its item as when every marker precedes it.
C34_OwnMarkerDecides ==
    ListingParsed /\ Len(parser.html.rows) = 1 =>
        LET row == parser.html.rows[1]
        IN  /\ row \in MarkersFollow =>
                  /\ Len(parser.ret) = 2
                  /\ parser.ret[1].status = StatusNamed(row[2].mark)
                  /\ parser.ret[2].status = StatusNamed(row[4].mark)
            /\ row \in MarkersPrecede =>
                  /\ Len(parser.ret) = 2
                  /\ parser.ret[1].status = StatusNamed(row[1].mark)
                  /\ parser.ret[2].status = StatusNamed(row[3].mark)


(***************************************************************************)
(* The status service (src/backend/api/status_ws.py): the webhook that     *)
(* n8n posts to and the websocket endpoint that polls the store.  All      *)
(* handlers are coroutines of one event loop, so a handler runs            *)
(* undisturbed from one await to the next.                                 *)
(***************************************************************************)
MaxPosts == 3
MaxSent == 2

Sessions == {"u1", "u2"}
\* StatusRequest.status is any string; "clear" is the one the handler tests.
Statuses == {"Searching", "done", "clear"}
\* StatusRequest (lines 8-10).
StatusRequest(sessionId, status) == [sessionId |-> sessionId, status |-> status]
StatusRequests == {StatusRequest(s, st) : s \in Sessions, st \in Statuses}
\* The websocket connections that clients may open.
Conns == {"a", "b"}

\* dict.pop(key, None) and dict[key] = value.
Pop(store, key) == [k \in DOMAIN store \ {key} |-> store[k]]
Put(store, key, value) ==
    [k \in DOMAIN store \cup {key} |-> IF k = key THEN value ELSE store[k]]

\* A mutant of handle_n8n_webhook: "clear" is stored like any status.
handle_n8n_webhook_StoresClear(store, request) ==
    [store |-> Put(store, request.sessionId, request.status),
     reply |-> [message |-> <<"Status ", request.status, " for ",
                              request.sessionId, " stored">>]]

\* handle_n8n_webhook (lines 28-34): the store it leaves and its reply.
handle_n8n_webhook(store, request) ==
    IF request.status = "clear"
    THEN [store |-> Pop(store, request.sessionId),
          reply |-> [message |-> <<"Status cleared for ", request.sessionId>>]]
    ELSE [store |-> Put(store, request.sessionId, request.status),
          reply |-> [message |-> <<"Status ", request.status, " for ",
                                   request.sessionId, " stored">>]]

\* A mutant of StatusMessage: the status of any session that has an entry.
StatusMessage_AnyEntry(store, session_id) ==
    IF DOMAIN store # {}
    THEN <<[status |-> store[CHOOSE k \in DOMAIN store : TRUE]]>>
    ELSE <<>>

\* `if session_id in status_store: await websocket.send_json({"status":
\* status_store[session_id]})` (lines 16-17 and 21-22): what is handed to
\* send_json.
StatusMessage(store, session_id) ==
    IF session_id \in DOMAIN store
    THEN <<[status |-> store[session_id]]>>
    ELSE <<>>

\* A connection nobody has opened.  `pending` is the message handed to a
\* send_json that has not returned yet, `sent` the messages that went out.
NoSocket == [session_id |-> "", pc |-> "none", peer |-> "none",
             pending |-> <<>>, sent |-> <<>>]

\* POST /n8n-webhook/ is handled.
Post(request) ==
    /\ Len(posted) < MaxPosts
    /\ LET out == handle_n8n_webhook(status_store, request) IN
         /\ status_store' = out.store
         /\ posted' = Append(posted, [request |-> request, reply |-> out.reply])
    /\ UNCHANGED <<sockets, pipe, listener, events, collection, indexing, crawler>>

\* A client opens /ws/{session_id}: websocket_endpoint starts and waits in
\* `await websocket.accept()` (lines 13-14).
Connect(c, session_id) ==
    /\ sockets[c].pc = "none"
    /\ sockets' = [sockets EXCEPT ![c] = [session_id |-> session_id,
                      pc |-> "accept", peer |-> "open",
                      pending |-> <<>>, sent |-> <<>>]]
    /\ UNCHANGED <<status_store, posted, pipe, listener, events, collection,
                   indexing, crawler>>

\* The check of lines 16 and 21 and the call of send_json of lines 17 and
\* 22: the message is built from the store as it is now and the handler
\* then waits in `await websocket.send_json(...)`; without an entry it goes
\* to sleep at once.
CheckAndSend(c) ==
    LET msg == StatusMessage(status_store, sockets[c].session_id) IN
    sockets' = [sockets EXCEPT ![c] =
        IF msg = <<>> THEN [@ EXCEPT !.pc = "sleep"]
        ELSE [@ EXCEPT !.pc = "send", !.pending = msg]]

\* accept() returns and the first check is made (lines 14-17).
Accepted(c) ==
    /\ sockets[c].pc = "accept"
    /\ CheckAndSend(c)
    /\ UNCHANGED <<status_store, posted, pipe, listener, events, collection,
                   indexing, crawler>>

\* One turn of the polling loop: the sleep is over (lines 19-22).
Poll(c) ==
    /\ sockets[c].pc = "sleep"
    /\ Len(sockets[c].sent) < MaxSent
    /\ CheckAndSend(c)
    /\ UNCHANGED <<status_store, posted, pipe, listener, events, collection,
                   indexing, crawler>>

\* send_json returns: the message has gone out and the handler sleeps
\* (lines 17-20 and 22).  A send to a peer that is gone raises, which ends
\* the handler (lines 23-26).
SendDone(c) ==
    /\ sockets[c].pc = "send"
    /\ sockets' = [sockets EXCEPT ![c] =
          IF @.peer = "open"
          THEN [@ EXCEPT !.pc = "sleep", !.sent = @ \o sockets[c].pending,
                         !.pending = <<>>]
          ELSE [@ EXCEPT !.pc = "closed", !.pending = <<>>]]
    /\ UNCHANGED <<status_store, posted, pipe, listener, events, collection,
                   indexing, crawler>>

\* The client goes away.
Disconnect(c) ==
    /\ sockets[c].peer = "open"
    /\ sockets' = [sockets EXCEPT ![c].peer = "gone"]
    /\ UNCHANGED <<status_store, posted, pipe, listener, events, collection,
                   indexing, crawler>>

\* The service alone: nothing is crawled, no pipe runs, nothing is indexed.
InitStatus ==
    /\ site = SiteC
    /\ faults = {}
    /\ plan = <<>>
    /\ files = EmptyDisk
    /\ pc = "idle"
    /\ call = NoCall
    /\ existing_urls = {}
    /\ num_pages = 0
    /\ chunk_start = 0
    /\ chunk_end = 0
    /\ tasks = <<>>
    /\ sem = 0
    /\ answered = <<>>
    /\ all_results = <<>>
    /\ hist = <<>>
    /\ parser = NoParse
    /\ status_store = EmptyDict
    /\ posted = <<>>
    /\ sockets = [c \in Conns |-> NoSocket]
    /\ pipe = NoPipe
    /\ listener = NoListener
    /\ events = <<>>
    /\ collection = EmptyCollection
    /\ indexing = NoIndexing

NextStatus == \E request \in StatusRequests : Post(request)

\* Webhook posts only.
SpecStatus == InitStatus /\ [][NextStatus]_vars

NextSocket ==
    \/ \E request \in StatusRequests : Post(request)
    \/ \E c \in Conns : \E s \in Sessions : Connect(c, s)
    \/ \E c \in Conns : Accepted(c)
    \/ \E c \in Conns : Poll(c)
    \/ \E c \in Conns : SendDone(c)
    \/ \E c \in Conns : Disconnect(c)

\* Webhook posts interleaved with the polling loops of the connections.
SpecSocket == InitStatus /\ [][NextSocket]_vars

\* The index in `posted` of the most recent post for session s, 0 if none.
LastPost(s) ==
    LET idx == {k \in 1..Len(posted) : posted[k].request.sessionId = s} IN
    IF idx = {} THEN 0 ELSE CHOOSE k \in idx : \A j \in idx : j <= k

\* C35: after any sequence of webhook posts the store holds, for each
\* session, exactly the status of the most recent post for it, and no entry
\* when that post was "clear" or there was none (so a post for one session
\* leaves the others as they were); every post, a "clear" for a session
\* without an entry included, is answered with a message and not an error.
C35_StoreHoldsLastPost ==
    /\ DOMAIN status_store \subseteq Sessions
    /\ \A s \in Sessions :
         LET k == LastPost(s) IN
         IF k = 0 \/ posted[k].request.status = "clear"
         THEN s \notin DOMAIN status_store
         ELSE s \in DOMAIN status_store /\ status_store[s] = posted[k].request.status
    /\ \A k \in 1..Len(posted) : DOMAIN posted[k].reply = {"message"}

\* "clear" for a session without an entry, then a status for the other
\* session, then a newer status for that one.
C35_Witness ==
    /\ Len(posted) = 3
    /\ posted[1].request = StatusRequest("u1", "clear")
    /\ posted[1].reply = [message |-> <<"Status cleared for ", "u1">>]
    /\ posted[2].request = StatusRequest("u2", "Searching")
    /\ posted[3].request = StatusRequest("u2", "done")
    /\ DOMAIN status_store = {"u2"}
    /\ status_store["u2"] = "done"

\* C36: every message sent on the websocket of session s carries the
\* status stored for s at the moment it is sent, which is the moment the
\* handler hands it to send_json; nothing is handed over while s has no
\* entry, so another session's status is never sent on it, and what goes
\* out on the connection is the message that was handed over, however the
\* webhook posts interleave with the polling loops.
C36_SendsOwnCurrentStatus ==
    [][\A c \in Conns :
         /\ (sockets[c].pending = <<>> /\ sockets'[c].pending # <<>>) =>
              LET s == sockets[c].session_id IN
              /\ s \in DOMAIN status_store
              /\ sockets'[c].pending = <<[status |-> status_store[s]]>>
         /\ sockets'[c].sent # sockets[c].sent =>
              /\ sockets[c].pending # <<>>
              /\ sockets'[c].sent = sockets[c].sent \o sockets[c].pending]_vars

\* The connection of u1 has sent the two statuses posted for u1, each the
\* one stored when it was handed over, and the connection of u2, opened
\* while only u1 had an entry, hands over the status posted for u2 since.
C36_Witness ==
    /\ sockets["a"].session_id = "u1"
    /\ sockets["a"].sent = <<[status |-> "Searching"], [status |-> "done"]>>
    /\ sockets["b"].session_id = "u2"
    /\ sockets["b"].sent = <<>>
    /\ sockets["b"].pending = <<[status |-> "Searching"]>>
    /\ Len(posted) = 3
    /\ posted[3].request = StatusRequest("u2", "Searching")
    /\ status_store["u1"] = "done"

(***************************************************************************)
(* The chat pipe (src/n8n_function.py): Pipe.pipe forwards a question to   *)
(* n8n and reports its progress through __event_emitter__, while the task  *)
(* it creates listens on the status websocket of the user's session and    *)
(* reports what arrives there.  n8n posts the statuses of its workflow to  *)
(* the webhook while it handles the request.                               *)
(***************************************************************************)
\* The event emit_status hands to __event_emitter__ (lines 56-68), type
\* "status".
emit_status(level, message, done) ==
    [type |-> "status",
     data |-> [status |-> IF done THEN "complete" ELSE "in_progress",
               level |-> level, description |-> message, done |-> done]]

\* One more event, emitted by the coroutine `by`.
Emitted(by, event) == Append(events, [by |-> by, event |-> event])

\* Pipe.pipe is called with an emitter: it takes the session id from the
\* user and creates the listener task (lines 105-110).
PipeStart(session_id) ==
    /\ pipe.pc = "idle"
    /\ pipe' = [pipe EXCEPT !.pc = "start", !.session_id = session_id]
    /\ listener' = [listener EXCEPT !.pc = "connect"]
    /\ UNCHANGED <<status_store, posted, sockets, events, collection, indexing,
                   crawler>>

\* The first status, then the request is sent to n8n (lines 129-140).
EmitSending ==
    /\ pipe.pc = "start"
    /\ events' = Emitted("pipe", emit_status("info", "Sending request to n8n", FALSE))
    /\ pipe' = [pipe EXCEPT !.pc = "request"]
    /\ UNCHANGED <<status_store, posted, sockets, listener, collection, indexing,
                   crawler>>

\* What the POST to n8n can end with: an answer with an HTTP status, a JSON
\* body with the given fields or a text, or an exception of the client with
\* the text str(e) gives, which is empty for asyncio.TimeoutError().
Answer(kind, status, fields, text) ==
    [kind |-> kind, status |-> status, fields |-> fields, text |-> text]
Answers ==
    { Answer("response", 200, {"output"}, ""),
      Answer("response", 200, {"text"}, ""),
      Answer("response", 500, {}, "boom"),
      Answer("response", 404, {}, "not found"),
      Answer("raised", 0, {}, "Cannot connect to host"),
      Answer("raised", 0, {}, "") }
\* valves.response_field (line 21).
response_field == "output"

\* The exception lines 137-147 end with, as the sequence of its str(e): no
\* exception when the field of a 200 answer is read, else the exception of
\* the client, the one raised on line 147 for another status, or the
\* KeyError of the missing field.  The text of an exception may be empty.
PostError(a) ==
    IF a.kind = "raised" THEN <<a.text>>
    ELSE IF a.status # 200
    THEN <<"Error: " \o ToString(a.status) \o " - " \o a.text>>
    ELSE IF response_field \notin a.fields
    THEN <<"'" \o response_field \o "'">>
    ELSE <<>>

\* The POST ends.  With status 200 and the field in the body the second
\* status is emitted (lines 141-155); otherwise the exception is caught,
\* whatever its text, the error status is the final one and pipe returns
\* {"error": str(e)} (lines 142-147 and 167-174).
N8nResponds(a) ==
    /\ pipe.pc = "request"
    /\ IF PostError(a) = <<>>
       THEN /\ events' = Emitted("pipe", emit_status("info", "Response received from n8n", FALSE))
            /\ pipe' = [pipe EXCEPT !.pc = "received", !.response = "output"]
       ELSE /\ events' = Emitted("pipe", emit_status("error",
                              "Error during sequence execution: " \o PostError(a)[1], TRUE))
            /\ pipe' = [pipe EXCEPT !.pc = "returned", !.response = "error"]
    /\ UNCHANGED <<status_store, posted, sockets, listener, collection, indexing,
                   crawler>>

\* After sleep(0) the answer is appended, the final status is emitted and
\* pipe returns (lines 157-165 and 176).
EmitComplete ==
    /\ pipe.pc = "received"
    /\ events' = Emitted("pipe", emit_status("status", "Processing complete", TRUE))
    /\ pipe' = [pipe EXCEPT !.pc = "returned"]
    /\ UNCHANGED <<status_store, posted, sockets, listener, collection, indexing,
                   crawler>>

\* The listener task opens the websocket of the session (lines 83-84).
ListenerConnect(c) ==
    /\ listener.pc = "connect"
    /\ sockets[c].pc = "none"
    /\ sockets' = [sockets EXCEPT ![c] = [session_id |-> pipe.session_id,
                      pc |-> "accept", peer |-> "open",
                      pending |-> <<>>, sent |-> <<>>]]
    /\ listener' = [listener EXCEPT !.pc = "recv", !.conn = c]
    /\ UNCHANGED <<status_store, posted, pipe, events, collection, indexing,
                   crawler>>

\* The listener receives the next message (lines 86-96): "done" is reported
\* as the completion, after which the task waits in websocket.close();
\* anything else is reported as a status in progress.
ListenerRecv ==
    /\ listener.pc = "recv"
    /\ listener.read < Len(sockets[listener.conn].sent)
    /\ LET data == sockets[listener.conn].sent[listener.read + 1] IN
         IF data.status = "done"
         THEN /\ events' = Emitted("listener", emit_status("info", "Completed", TRUE))
              /\ listener' = [listener EXCEPT !.pc = "close", !.read = @ + 1]
         ELSE /\ events' = Emitted("listener", emit_status("info", data.status, FALSE))
              /\ listener' = [listener EXCEPT !.read = @ + 1]
    /\ UNCHANGED <<status_store, posted, sockets, pipe, collection, indexing, crawler>>

\* websocket.close() returns and the task ends (lines 90-92); until then
\* the connection is open and the service goes on sending on it.
ListenerClose ==
    /\ listener.pc = "close"
    /\ sockets' = [sockets EXCEPT ![listener.conn].peer = "gone"]
    /\ listener' = [listener EXCEPT !.pc = "closed"]
    /\ UNCHANGED <<status_store, posted, pipe, events, collection, indexing, crawler>>

\* The workflow posts a status of the session while n8n handles the request.
WorkflowPosts(status) ==
    /\ pipe.pc = "request"
    /\ Post(StatusRequest(pipe.session_id, status))

NextPipe ==
    \/ \E s \in Sessions : PipeStart(s)
    \/ EmitSending
    \/ \E st \in Statuses : WorkflowPosts(st)
    \/ \E a \in Answers : N8nResponds(a)
    \/ EmitComplete
    \/ \E c \in Conns : ListenerConnect(c)
    \/ \E c \in Conns : Accepted(c)
    \/ \E c \in Conns : Poll(c)
    \/ \E c \in Conns : SendDone(c)
    \/ ListenerRecv
    \/ ListenerClose

\* One request through the pipe, against the status service.
SpecPipe == InitStatus /\ [][NextPipe]_vars

\* C37: once Pipe.pipe has emitted its final status event (done = true, on
\* the success or on the error path), no status event with done = false is
\* emitted afterwards for that request, the listener task's events included.
C37_NothingInProgressAfterFinal ==
    \A k \in 1..Len(events) : \A j \in 1..Len(events) :
        (/\ k < j
         /\ events[k].by = "pipe"
         /\ events[k].event.data.done)
        => events[j].event.data.done


(***************************************************************************)
(* The indexing script (src/backend/scripts/TI-E2E-indexing.py): it loads  *)
(* the artifact of the current date, deletes the points of that date from  *)
(* the collection and uploads one point per record, in batches run by a    *)
(* pool of worker threads.                                                 *)
(***************************************************************************)
MaxIndexRuns == 2
WORKERS == 3
BATCH_SIZE == 200

\* A record of an artifact, and an artifact of n records of n threads.
IndexRecord(k) == [title |-> "T", url |-> Url(k), question |-> "Q", answer |-> "A"]
Recs(n) == [k \in 1..n |-> IndexRecord(k)]

\* The artifacts indexed: no record, one, the same record twice (a thread
\* listed in two chunks), and enough records for two and for four batches.
IndexData ==
    {<<>>, Recs(1), <<IndexRecord(1), IndexRecord(1)>>,
     Recs(BATCH_SIZE + 1), Recs(3 * BATCH_SIZE + 1)}

\* The payload of the point made of a record (lines 66-70); the f-string of
\* `content` is kept as the sequence of its parts.
Payload(item, date) ==
    [url |-> item.url,
     content |-> <<"TITLE: ", item.title, "\nQUESTION: ", item.question,
                   "\nURL: ", item.url, "\nANSWER: ", item.answer>>,
     metadata_date |-> date]

\* get_embedding_ollama(title + "\n" + question) (lines 60-61).
Embedding(item) == <<"embedding", item.title, "\n", item.question>>

\* The point of record k of the data of run number `run` (lines 63-71).
\* uuid4 gives every point an id no other point has: the run and the
\* position of the record stand for it.
PointOf(run, k, item, date) ==
    [id |-> <<run, k>>, vector |-> Embedding(item), payload |-> Payload(item, date)]

\* `batches` (line 79): the number of batches and the positions of batch i.
NumBatches(data) == (Len(data) + BATCH_SIZE - 1) \div BATCH_SIZE
BatchRange(data, i) ==
    {k \in 1..Len(data) : (i - 1) * BATCH_SIZE < k /\ k <= i * BATCH_SIZE}

\* The points process_batch upserts for batch i (lines 57-75).
process_batch(run, data, i, date) ==
    {PointOf(run, k, data[k], date) : k \in BatchRange(data, i)}

\* The metadata_date of a point; a point uploaded by the initial upload
\* (src/init_script/qdrant_upload.py, lines 62-69) has none.
NoDate == -1
DateOf(p) ==
    IF "metadata_date" \in DOMAIN p.payload THEN p.payload.metadata_date ELSE NoDate

\* A mutant of DeleteByDate: nothing is deleted.
DeleteByDate_Nothing(points, date) == points

\* client.delete with the filter metadata_date = CURRENT_DATE (lines 37-49):
\* a point without the key does not match.
DeleteByDate(points, date) == {p \in points : DateOf(p) # date}

\* The script is started on date d and loads the artifact (lines 12-29);
\* open() raises when there is no file of that date.  `before` and `writes`
\* keep what the collection held of other dates, and how many requests the
\* other programs had made, when the run began.
LoadData(d) ==
    /\ indexing.pc \in {"idle", "finished", "crashed"}
    /\ Len(indexing.dates) < MaxIndexRuns
    /\ \A k \in 1..Len(indexing.dates) : indexing.dates[k] <= d
    /\ IF files[MainOutput(d)].kind = "json"
       THEN indexing' = [pc |-> "loaded", date |-> d, data |-> files[MainOutput(d)].data,
                         batches |-> <<>>, dates |-> Append(indexing.dates, d),
                         before |-> {p \in collection.points : DateOf(p) # d},
                         writes |-> collection.writes]
       ELSE indexing' = [pc |-> "crashed", date |-> d, data |-> <<>>,
                         batches |-> <<>>, dates |-> Append(indexing.dates, d),
                         before |-> {p \in collection.points : DateOf(p) # d},
                         writes |-> collection.writes]
    /\ UNCHANGED <<collection, status_store, posted, sockets, pipe, listener,
                   events, crawler>>

\* client.delete (lines 37-49).  When it returns, the points of the current
\* date are gone and the batches are submitted to the pool (lines 79-84).
\* When it raises, as it does when the collection is not there and may do
\* when the server cannot be reached, the script ends there, the call being
\* outside any try, and the collection is as it was.
DeleteExisting ==
    /\ indexing.pc = "loaded"
    /\ \E raised \in (IF collection.exists THEN BOOLEAN ELSE {TRUE}) :
         IF raised
         THEN /\ indexing' = [indexing EXCEPT !.pc = "crashed"]
              /\ collection' = collection
         ELSE /\ collection' = [collection EXCEPT
                                  !.points = DeleteByDate(@, indexing.date)]
              /\ indexing' = [indexing EXCEPT !.pc = "uploading",
                                !.batches = [i \in 1..NumBatches(indexing.data)
                                               |-> "submitted"]]
    /\ UNCHANGED <<status_store, posted, sockets, pipe, listener, events, crawler>>

\* The batches a worker thread is busy with.
Busy == {i \in 1..Len(indexing.batches) : indexing.batches[i] = "running"}

\* A free worker takes batch i.
BatchStart(i) ==
    /\ indexing.pc = "uploading"
    /\ indexing.batches[i] = "submitted"
    /\ Cardinality(Busy) < WORKERS
    /\ indexing' = [indexing EXCEPT !.batches[i] = "running"]
    /\ UNCHANGED <<collection, status_store, posted, sockets, pipe, listener,
                   events, crawler>>

\* Batch i is embedded and upserted into the collection (lines 59-76).
BatchUpsert(i) ==
    /\ indexing.pc = "uploading"
    /\ indexing.batches[i] = "running"
    /\ collection.exists
    /\ collection' = [collection EXCEPT !.points = @ \cup
          process_batch(Len(indexing.dates), indexing.data, i, indexing.date)]
    /\ indexing' = [indexing EXCEPT !.batches[i] = "done"]
    /\ UNCHANGED <<status_store, posted, sockets, pipe, listener, events, crawler>>

\* An embedding or the upsert of batch i raises, as the upsert does when the
\* collection is not there; the main thread reports the batch as failed
\* (lines 88-93).
BatchFails(i) ==
    /\ indexing.pc = "uploading"
    /\ indexing.batches[i] = "running"
    /\ indexing' = [indexing EXCEPT !.batches[i] = "failed"]
    /\ UNCHANGED <<collection, status_store, posted, sockets, pipe, listener,
                   events, crawler>>

\* Every future has completed: the script ends (lines 86-95).
IndexEnd ==
    /\ indexing.pc = "uploading"
    /\ \A i \in 1..Len(indexing.batches) : indexing.batches[i] \in {"done", "failed"}
    /\ indexing' = [indexing EXCEPT !.pc = "finished"]
    /\ UNCHANGED <<collection, status_store, posted, sockets, pipe, listener,
                   events, crawler>>

\* A point uploaded on an earlier day, and one of the initial upload.
OldPoint == PointOf(0, 1, IndexRecord(1), 0)
SeedPoint ==
    [id |-> <<0, 0>>, vector |-> Embedding(IndexRecord(1)),
     payload |-> [url |-> Url(1), content |-> Payload(IndexRecord(1), 0).content]]

(***************************************************************************)
(* The other programs of the repository that write to the same collection: *)
(* the initial upload (src/init_script/qdrant_upload.py), the upload of    *)
(* its failed batches (qdrant_upload_failed.py), the installer             *)
(* (src/install.py) and the repair tool (src/auto-fix.py).  An operator    *)
(* may run any of them at any time; each request they make is a step.      *)
(***************************************************************************)
MaxWrites == 1

\* The point the initial upload makes of a record (qdrant_upload.py lines
\* 62-69): a fresh uuid4 id, for which the number of the request stands,
\* and no metadata_date.
UploadPoint(n, item) ==
    [id |-> <<0 - n, 1>>, vector |-> Embedding(item),
     payload |-> [url |-> item.url, content |-> Payload(item, 0).content]]

\* What questions-collection-combined.snapshot holds: the initial upload.
Snapshot == {SeedPoint}

\* The initial upload finds the collection and deletes it (qdrant_upload.py
\* lines 33-35).
delete_collection ==
    /\ collection.writes < MaxWrites
    /\ collection.exists
    /\ collection' = [exists |-> FALSE, points |-> {}, writes |-> collection.writes + 1]
    /\ UNCHANGED <<indexing, status_store, posted, sockets, pipe, listener,
                   events, crawler>>

\* The collection is created, empty: by the initial upload after its
\* delete (qdrant_upload.py lines 37-48), by the installer when it does not
\* find it (install.py lines 270-283).
create_collection ==
    /\ collection.writes < MaxWrites
    /\ ~collection.exists
    /\ collection' = [exists |-> TRUE, points |-> {}, writes |-> collection.writes + 1]
    /\ UNCHANGED <<indexing, status_store, posted, sockets, pipe, listener,
                   events, crawler>>

\* A batch of the initial upload, or of the upload of its failed batches,
\* is upserted (qdrant_upload.py lines 56-74): points without a date.
UploadBatch ==
    /\ collection.writes < MaxWrites
    /\ collection.exists
    /\ collection' = [collection EXCEPT
          !.points = @ \cup {UploadPoint(collection.writes + 1, IndexRecord(1))},
          !.writes = @ + 1]
    /\ UNCHANGED <<indexing, status_store, posted, sockets, pipe, listener,
                   events, crawler>>

\* The snapshot is uploaded with priority=snapshot and accepted (install.py
\* lines 186-258, auto-fix.py lines 36-106): the collection is created or
\* replaced and holds what the snapshot holds.
restore_snapshot ==
    /\ collection.writes < MaxWrites
    /\ collection' = [exists |-> TRUE, points |-> Snapshot, writes |-> collection.writes + 1]
    /\ UNCHANGED <<indexing, status_store, posted, sockets, pipe, listener,
                   events, crawler>>

\* The data directory holds an artifact of date 2 and, or not, one of date
\* 1; the collection is not there yet, or holds a point of an earlier day
\* and one of the initial upload.
InitIndex ==
    /\ site = SiteC
    /\ faults = {}
    /\ plan = <<>>
    /\ \E a \in {Absent} \cup {JsonFile(d) : d \in IndexData} :
         files = [p \in Paths |-> IF p = MainOutput(1) THEN a
                                  ELSE IF p = OtherOutput THEN Absent
                                  ELSE JsonFile(Recs(1))]
    /\ pc = "idle"
    /\ call = NoCall
    /\ existing_urls = {}
    /\ num_pages = 0
    /\ chunk_start = 0
    /\ chunk_end = 0
    /\ tasks = <<>>
    /\ sem = 0
    /\ answered = <<>>
    /\ all_results = <<>>
    /\ hist = <<>>
    /\ parser = NoParse
    /\ status_store = EmptyDict
    /\ posted = <<>>
    /\ sockets = <<>>
    /\ pipe = NoPipe
    /\ listener = NoListener
    /\ events = <<>>
    /\ collection \in {[EmptyCollection EXCEPT !.exists = FALSE],
                       [EmptyCollection EXCEPT !.points = {OldPoint, SeedPoint}]}
    /\ indexing = NoIndexing

NextIndex ==
    \/ \E d \in Dates : LoadData(d)
    \/ DeleteExisting
    \/ \E i \in 1..Len(indexing.batches) : BatchStart(i)
    \/ \E i \in 1..Len(indexing.batches) : BatchUpsert(i)
    \/ \E i \in 1..Len(indexing.batches) : BatchFails(i)
    \/ IndexEnd
    \/ delete_collection
    \/ create_collection
    \/ UploadBatch
    \/ restore_snapshot

\* Indexing runs one after the other, on the same date or on a later one,
\* while the other programs write to the collection.
SpecIndex == InitIndex /\ [][NextIndex]_vars

\* An indexing run has ended and every batch of it succeeded.
IndexedInFull ==
    /\ indexing.pc = "finished"
    /\ \A i \in 1..Len(indexing.batches) : indexing.batches[i] = "done"

\* The points of the collection with metadata_date d.
PointsOfDate(d) == {p \in collection.points : DateOf(p) = d}

\* What an indexing run on date D leaves: one point with metadata_date = D
\* per record of the artifact (as many points with a record's payload as
\* the artifact has records equal to it), and of every other date the
\* points from before the run.
OnePointPerRecord ==
    LET D == indexing.date
        data == indexing.data
        pts == PointsOfDate(D)
        payloads == {Payload(data[k], D) : k \in 1..Len(data)}
    IN  /\ Cardinality(pts) = Len(data)
        /\ \A p \in pts : Cardinality({q \in pts : q.id = p.id}) = 1
        /\ \A pl \in payloads :
             Cardinality({p \in pts : p.payload = pl})
               = Cardinality({k \in 1..Len(data) : Payload(data[k], D) = pl})
        /\ collection.points \ pts = indexing.before

\* C38 as stated: after an indexing run on date D in which every batch
\* succeeds, the collection holds exactly one point with metadata_date = D
\* per record of that date's artifact, however many runs were made on D
\* before, and the points of every other date are left unchanged.
C38_Original == IndexedInFull => OnePointPerRecord

\* C38: after an indexing run on date D in which every batch succeeds, and
\* as long as no other program has written to the collection since the run
\* began, the collection holds exactly one point with metadata_date = D per
\* record of that date's artifact, however many runs were made on D before,
\* and the points of every other date are those from before the run.
C38_OnePointPerRecord ==
    (IndexedInFull /\ collection.writes = indexing.writes) => OnePointPerRecord

\* The second run on date 1, with four batches, has ended with every batch
\* uploaded; the snapshot was restored before it began, and the collection
\* holds the point of the snapshot, without a date, as well.
C38_Witness ==
    /\ IndexedInFull
    /\ indexing.dates = <<1, 1>>
    /\ Len(indexing.data) = 3 * BATCH_SIZE + 1
    /\ Len(indexing.batches) = 4
    /\ indexing.writes = 1
    /\ collection.writes = 1
    /\ indexing.before = Snapshot
    /\ Cardinality(collection.points) = 3 * BATCH_SIZE + 2

====
